---- MODULE Spec2Model ----
(***************************************************************************)
(* Society Scout: the dialogue engine (chatbot/conversation.py), its       *)
(* filter store (chatbot/memory.py) and the event query service (data.py). *)
(* One action per branch of ConversationManager.process_message; a turn is *)
(* atomic (the program is single-threaded and synchronous).                *)
(*                                                                         *)
(* Strings are atomic values.  str.lower() is the table Lower, the         *)
(* substring test `a in b` is the relation Contains, an event's date is    *)
(* its distance in days from datetime.now().date().                        *)
(***************************************************************************)
EXTENDS Integers, Sequences, FiniteSets, TLC

\* ---------------------------------------------------------------- bounds
\* Longest filter list the store may hold (add_filter itself never refuses).
MaxFilters == 3
\* Longest keyword list one utterance yields.
MaxKeywords == 1
\* Longest transcript (conversation_history) explored.
MaxHistory == 6
\* Longest filter list the explored sessions ask to remember.
MaxSaved == 1

\* ------------------------------------------------------------- constants
\* _render_results_response / _handle_no_results: size of the first page.
PageSize == 3
\* _format_search_results: `results[:5]`.
MaxRendered == 5
\* _handle_random_selection: `min(3, len(all_events))`.
RandomCount == 3

NoneVal == "None"

\* ------------------------------------------------------------ vocabulary
\* The filter values of the explored utterances: words of rules.py EVENT_TYPES
\* and ORGANIZERS, and a TOPIC_KEYWORDS word that singularize leaves alone.
\* (Date and location filters are explored by SpecStore below.)
EVENT_TYPES == {"workshop", "seminar"}
ORGANIZERS == {"arc"}
DateValues == {}
LocationValues == {}
KeywordValues == {"python"}

FilterTypes == {"event_type", "date", "location", "organizer", "keyword"}

\* ------------------------------------------------------------ the catalog
\* One event of data/events.json (EventDatabase.load_events keeps item['event']).
EventRec(id) ==
  CASE id = "e1" -> [type |-> "Workshop", organizer |-> "Arc", date |-> 0,
                     location |-> "Main Library", title |-> "Intro to Python",
                     description |-> "", tags |-> {"coding"}]
    [] id = "e2" -> [type |-> "workshop", organizer |-> "arc", date |-> 3,
                     location |-> "quad", title |-> "pitch night",
                     description |-> "", tags |-> {"startup"}]
    [] id = "e3" -> [type |-> "seminar", organizer |-> "library", date |-> 0,
                     location |-> "main library", title |-> "research talk",
                     description |-> "", tags |-> {"python"}]
    [] id = "e4" -> [type |-> "workshop", organizer |-> "club", date |-> 8,
                     location |-> "quad", title |-> "robotics",
                     description |-> "learn python", tags |-> {"tech"}]
    [] id \in {"e5", "e6", "e7"} ->
                    [type |-> "workshop", organizer |-> "arc", date |-> 3,
                     location |-> "quad", title |-> id,
                     description |-> "", tags |-> {}]

\* The catalogs a session may be started with (EventDatabase.events after load;
\* a missing or invalid file leaves the empty catalog).
Catalogs == { <<>>, <<"e1", "e2">>, <<"e1", "e2", "e3", "e4">> }

\* str.lower() on the strings of the model.
Lower(s) ==
  CASE s = "Workshop" -> "workshop"
    [] s = "Arc" -> "arc"
    [] s = "Main Library" -> "main library"
    [] s = "Intro to Python" -> "intro to python"
    [] OTHER -> s

\* Python `needle in hay` on the (lower-cased) strings of the model.
Contains(hay, needle) ==
  \/ needle = hay
  \/ needle = ""
  \/ <<needle, hay>> \in { <<"library", "main library">>,
                           <<"python", "intro to python">>,
                           <<"python", "learn python">> }

\* ------------------------------------------------------- sequence helpers
\* reversed(seq)
Reversed(seq) == [i \in 1..Len(seq) |-> seq[Len(seq) + 1 - i]]

\* seq[:n]
Take(seq, n) == SubSeq(seq, 1, IF n < Len(seq) THEN n ELSE Len(seq))

Min(a, b) == IF a < b THEN a ELSE b

\* ------------------------------------------------- data.py: EventDatabase
\* datetime.now().date().weekday(), Monday = 0.
TodayWeekday == 1

day_names == <<"monday", "tuesday", "wednesday", "thursday", "friday",
               "saturday", "sunday">>

\* day_names.index(date_value)
DayIndex(name) == (CHOOSE i \in 1..7 : day_names[i] = name) - 1

\* datetime.strptime(date_value, '%Y-%m-%d'): the calendar dates of the model,
\* as days from today; any other string raises ValueError.
IsoDates == {"2030-01-03"}
IsoOffset(v) == 2

\* A variant of get_all_events that returns one page of the catalog.
get_all_events_one_page(ev) == SubSeq(ev, 1, IF Len(ev) < PageSize THEN Len(ev) ELSE PageSize)

\* EventDatabase.get_all_events
get_all_events(ev) == ev

\* EventDatabase._filter_by_date
filter_by_date(results, date_value) ==
  IF date_value = "this_week"
  THEN SelectSeq(results, LAMBDA e : 0 <= EventRec(e).date /\ EventRec(e).date <= 7)
  ELSE IF date_value = "next_week"
  THEN SelectSeq(results, LAMBDA e : 7 <= EventRec(e).date /\ EventRec(e).date <= 14)
  ELSE IF date_value \notin ({"today", "tomorrow"} \cup {day_names[i] : i \in 1..7}
                             \cup IsoDates)
  THEN results
  ELSE LET days_ahead == (DayIndex(date_value) - TodayWeekday) % 7
           target_date ==
             CASE date_value = "today" -> 0
               [] date_value = "tomorrow" -> 1
               [] date_value \in IsoDates -> IsoOffset(date_value)
               [] OTHER -> IF days_ahead = 0 THEN 7 ELSE days_ahead
       IN SelectSeq(results, LAMBDA e : EventRec(e).date = target_date)

\* EventDatabase._filter_by_keyword
filter_by_keyword(results, keyword) ==
  SelectSeq(results, LAMBDA e :
    \/ Contains(Lower(EventRec(e).title), keyword)
    \/ Contains(Lower(EventRec(e).description), keyword)
    \/ \E tag \in EventRec(e).tags : Contains(Lower(tag), keyword))

\* EventDatabase.search_events: one pass of its loop body.
apply_filter(results, filter_item) ==
  LET filter_type == filter_item.type
      filter_value == Lower(filter_item.value)
  IN CASE filter_type = "event_type" ->
            SelectSeq(results, LAMBDA e : Lower(EventRec(e).type) = filter_value)
       [] filter_type = "organizer" ->
            SelectSeq(results, LAMBDA e : Lower(EventRec(e).organizer) = filter_value)
       [] filter_type = "date" -> filter_by_date(results, filter_value)
       [] filter_type = "location" ->
            SelectSeq(results, LAMBDA e : Contains(Lower(EventRec(e).location), filter_value))
       [] filter_type = "keyword" -> filter_by_keyword(results, filter_value)
       [] OTHER -> results

RECURSIVE search_loop(_, _)
\* EventDatabase.search_events: `for filter_item in filters`.
search_loop(results, filters) ==
  IF filters = <<>> THEN results
  ELSE search_loop(apply_filter(results, Head(filters)), Tail(filters))

\* A variant of search_events that keeps what the last filter alone matches.
search_events_last_filter(ev, filters) ==
  IF filters = <<>> THEN ev ELSE apply_filter(ev, filters[Len(filters)])

\* EventDatabase.search_events
search_events(ev, filters) == search_loop(ev, filters)

\* --------------------------------------- chatbot/memory.py: ConversationMemory
\* ConversationMemory.add_filter
add_filter(filters, filter_type, value) ==
  Append(filters, [type |-> filter_type, value |-> value])

\* A variant of remove_last_filter that pops the oldest filter.
remove_first_filter(filters) ==
  IF filters # <<>> THEN Tail(filters) ELSE filters

\* ConversationMemory.remove_last_filter: the list it leaves.
remove_last_filter(filters) ==
  IF filters # <<>> THEN SubSeq(filters, 1, Len(filters) - 1) ELSE filters

\* A variant of removed_filter that returns the oldest filter.
removed_oldest_filter(filters) ==
  IF filters # <<>> THEN <<Head(filters)>> ELSE <<>>

\* ConversationMemory.remove_last_filter: the filter it returns (<<>> is None).
removed_filter(filters) ==
  IF filters # <<>> THEN <<filters[Len(filters)]>> ELSE <<>>

\* ConversationMemory.last_added_filter after pop / set_filters (<<>> is None).
last_of(filters) ==
  IF filters # <<>> THEN <<filters[Len(filters)]>> ELSE <<>>

\* ---------------------------------------------------------------- state
VARIABLES
  events,                        \* EventDatabase.events
  event_filters,                 \* ConversationMemory.event_filters
  last_added_filter,             \* ConversationMemory.last_added_filter
  conversation_history,          \* ConversationMemory.conversation_history (speakers)
  state,                         \* ConversationManager.state
  last_results,                  \* ConversationManager.last_results
  results_pointer,               \* ConversationManager.results_pointer
  last_removed_filters,          \* ConversationManager.last_removed_filters
  saved_filters,                 \* ConversationManager.saved_filters (<<>> is None)
  awaiting_random_confirmation,  \* ConversationManager.awaiting_random_confirmation
  turn                           \* what the last process_message call did

vars == <<events, event_filters, last_added_filter, conversation_history, state,
          last_results, results_pointer, last_removed_filters, saved_filters,
          awaiting_random_confirmation, turn>>

\* The record of the last process_message call.  For a search: whether the
\* turn searched, the filter list the search started from, the filter lists it
\* queried (in order), the local list `removed` of _handle_no_results, the
\* events it rendered and the kind of response.  For a run of consecutive
\* cancel turns: the store when the run began (start) and the filters the
\* cancel responses named, in order (cancelled).  For a turn whose intent is a
\* confirmation word: the intent, the flag as the routing read it (awaited)
\* and the handler the routing chose.  A turn that applies the saved preset
\* records its intent, a reset or show-more turn its response.  Any other turn
\* leaves NoTurn.
NoTurn == [searched |-> FALSE, start |-> <<>>, queries |-> <<>>,
           removed |-> <<>>, shown |-> <<>>, response |-> "none",
           cancelled |-> <<>>, intent |-> "None", awaited |-> FALSE,
           handler |-> "none", before |-> <<>>,
           reply |-> "none", text |-> "", parsed |-> NoneVal,
           listed |-> <<>>]

\* --------------------------------- chatbot/conversation.py: pure helpers
\* The filters of one type, in store order.
OfType(filters, ftype) == SelectSeq(filters, LAMBDA f : f.type = ftype)

\* A first-write-wins variant of collect_item (an existing value is kept).
collect_item_first_wins(filter_map, item) ==
  IF item.type = "keyword"
  THEN IF \E i \in 1..Len(filter_map.keywords) : filter_map.keywords[i] = item.value
       THEN filter_map
       ELSE [filter_map EXCEPT !.keywords = Append(@, item.value)]
  ELSE IF item.type \in DOMAIN filter_map /\ filter_map[item.type] = NoneVal
  THEN [filter_map EXCEPT ![item.type] = item.value]
  ELSE filter_map

\* _collect_filter_map: the body of `for item in self.memory.get_filters()`.
collect_item(filter_map, item) ==
  IF item.type = "keyword"
  THEN IF \E i \in 1..Len(filter_map.keywords) : filter_map.keywords[i] = item.value
       THEN filter_map
       ELSE [filter_map EXCEPT !.keywords = Append(@, item.value)]
  ELSE IF item.type \in DOMAIN filter_map
  THEN [filter_map EXCEPT ![item.type] = item.value]
  ELSE filter_map

RECURSIVE collect_loop(_, _)
\* _collect_filter_map: the loop over the store.
collect_loop(items, filter_map) ==
  IF items = <<>> THEN filter_map
  ELSE collect_loop(Tail(items), collect_item(filter_map, Head(items)))

\* ConversationManager._collect_filter_map
collect_filter_map(filters) ==
  collect_loop(filters, [event_type |-> NoneVal, date |-> NoneVal,
                         location |-> NoneVal, organizer |-> NoneVal,
                         keywords |-> <<>>])

RECURSIVE add_keywords(_, _)
\* _ingest_filters: `for keyword in value: add_filter('keyword', keyword)`.
add_keywords(filters, keywords) ==
  IF keywords = <<>> THEN filters
  ELSE add_keywords(add_filter(filters, "keyword", Head(keywords)), Tail(keywords))

\* _ingest_filters: one category entry of the parsed dict.
add_category(filters, ftype, value) ==
  IF value # NoneVal THEN add_filter(filters, ftype, value) ELSE filters

\* A variant of _ingest_filters that appends the keywords before the
\* category filters.
ingest_filters_keywords_first(filters, parsed) ==
  add_category(
    add_category(
      add_category(
        add_category(add_keywords(filters, parsed.keywords),
                     "event_type", parsed.event_type),
        "date", parsed.date),
      "location", parsed.location),
    "organizer", parsed.organizer)

\* ConversationManager._ingest_filters: the store after it (the parsed dict is
\* iterated in insertion order: event_type, date, location, organizer, keywords).
ingest_filters(filters, parsed) ==
  add_keywords(
    add_category(
      add_category(
        add_category(
          add_category(filters, "event_type", parsed.event_type),
          "date", parsed.date),
        "location", parsed.location),
      "organizer", parsed.organizer),
    parsed.keywords)

\* A variant of _search_events that finds nothing when there is no filter.
search_current_needs_filter(ev, filters) ==
  IF filters = <<>> THEN <<>> ELSE search_events(ev, filters)

\* ConversationManager._search_events, on the store `filters`.
search_current(ev, filters) ==
  IF filters = <<>> THEN get_all_events(ev) ELSE search_events(ev, filters)

RECURSIVE restore_filters_forward(_, _)
\* A variant of the restore loop that iterates `removed` without reversing it.
restore_filters_forward(filters, removed) ==
  IF removed = <<>> THEN filters
  ELSE restore_filters_forward(
         add_filter(filters, Head(removed).type, Head(removed).value),
         Tail(removed))

RECURSIVE restore_filters(_, _)
\* _handle_no_results: `for item in reversed(removed): add_filter(...)`.
restore_filters(filters, removed) ==
  IF removed = <<>> THEN filters
  ELSE restore_filters(
         add_filter(filters, removed[Len(removed)].type, removed[Len(removed)].value),
         SubSeq(removed, 1, Len(removed) - 1))

\* ConversationManager._format_search_results: the events it renders.
format_search_results(results) == Take(results, MaxRendered)

\* ------------------------------ chatbot/conversation.py: the search path
\* A session value `s` holds the fields of ConversationManager and of its
\* ConversationMemory, and in s.turn the record of the turn being processed.

\* The store of session s replaced by `filters` (last_added_filter follows).
with_filters(s, filters) ==
  [s EXCEPT !.event_filters = filters, !.last_added_filter = last_of(filters)]

\* A variant of _reset_paging that keeps the relaxed-filter record.
reset_paging_keeps_record(s, results) ==
  [s EXCEPT !.state = "searching",
            !.last_results = results,
            !.results_pointer = 0]

\* ConversationManager._reset_paging(results)
reset_paging(s, results) ==
  [s EXCEPT !.state = "searching",
            !.last_results = results,
            !.results_pointer = 0,
            !.last_removed_filters = <<>>]

\* A variant of _render_results_response that always advances a full page.
render_results_full_page(s, results) ==
  [s EXCEPT !.results_pointer = PageSize,
            !.turn.shown = format_search_results(Take(results, PageSize)),
            !.turn.response = "results"]

\* ConversationManager._render_results_response
render_results_response(s, results) ==
  [s EXCEPT !.results_pointer = Min(PageSize, Len(results)),
            !.turn.shown = format_search_results(Take(results, PageSize)),
            !.turn.response = "results"]

\* A variant of relaxed_match that records the removed filters oldest first.
relaxed_match_oldest_first(s, similar_results, removed) ==
  [with_filters(s, restore_filters(s.event_filters, removed))
     EXCEPT !.last_results = similar_results,
            !.last_removed_filters = Reversed(removed),
            !.results_pointer = Min(PageSize, Len(similar_results)),
            !.turn.removed = removed,
            !.turn.shown = format_search_results(Take(similar_results, PageSize)),
            !.turn.response = "relaxed_results"]

\* _handle_no_results: the branch `if similar_results:` (removed filters are
\* recorded, then put back into the store).
relaxed_match(s, similar_results, removed) ==
  [with_filters(s, restore_filters(s.event_filters, removed))
     EXCEPT !.last_results = similar_results,
            !.last_removed_filters = removed,
            !.results_pointer = Min(PageSize, Len(similar_results)),
            !.turn.removed = removed,
            !.turn.shown = format_search_results(Take(similar_results, PageSize)),
            !.turn.response = "relaxed_results"]

\* _handle_no_results: the code after the loop (every filter was tried).
relaxation_exhausted(s, removed) ==
  [with_filters(s, restore_filters(s.event_filters, removed))
     EXCEPT !.last_results = <<>>,
            !.last_removed_filters = <<>>,
            !.turn.removed = removed,
            !.turn.response = "no_events"]

RECURSIVE relax_loop(_, _, _)
\* _handle_no_results: `while self.memory.get_filters():`.
relax_loop(ev, s, removed) ==
  IF s.event_filters = <<>>
  THEN relaxation_exhausted(s, removed)
  ELSE LET last_filter == removed_filter(s.event_filters)
           popped == with_filters(s, remove_last_filter(s.event_filters))
           removed2 == removed \o last_filter
           similar_results == search_current(ev, popped.event_filters)
           queried == [popped EXCEPT !.turn.queries = Append(@, popped.event_filters)]
       IN IF similar_results # <<>>
          THEN relaxed_match(queried, similar_results, removed2)
          ELSE relax_loop(ev, queried, removed2)

\* ConversationManager._handle_no_results
handle_no_results(ev, s) == relax_loop(ev, s, <<>>)

\* ConversationManager._respond_with_current_filters
respond_with_current_filters(ev, s) ==
  LET results == search_current(ev, s.event_filters)
      paged == [reset_paging(s, results)
                  EXCEPT !.turn.searched = TRUE,
                         !.turn.start = s.event_filters,
                         !.turn.queries = <<s.event_filters>>]
  IN IF results # <<>>
     THEN render_results_response(paged, results)
     ELSE handle_no_results(ev, paged)

\* A variant of the purpose reminder that forgets the filters.
actionable_unknown_drops_context(s) == with_filters(s, <<>>)

\* fallbacks.handle_actionable_unknown: the purpose reminder.
actionable_unknown(s) == s

\* The filter map holds a category filter (event type, date, location, organizer).
has_structured_filters(parsed) ==
  \/ parsed.event_type # NoneVal
  \/ parsed.date # NoneVal
  \/ parsed.location # NoneVal
  \/ parsed.organizer # NoneVal

\* ConversationManager._handle_unknown.  `mentions` is its first test: the
\* tokens hold a filter word or one of event(s), activity(ies), find, search.
handle_unknown(ev, s, parsed, mentions) ==
  IF ~mentions THEN actionable_unknown(s)
  ELSE IF has_structured_filters(parsed)
  THEN respond_with_current_filters(ev,
         with_filters(s, ingest_filters(s.event_filters, parsed)))
  ELSE actionable_unknown(s)

\* ConversationManager._handle_event_search.  The filter map it tests is the
\* one _ingest_filters returns, the map of the whole store: a find_event text
\* that names no filter searches again with the filters already held.
handle_event_search(ev, s, parsed, mentions) ==
  LET ingested == with_filters(s, ingest_filters(s.event_filters, parsed))
      filter_map == collect_filter_map(ingested.event_filters)
  IN IF ~has_structured_filters(filter_map) /\ filter_map.keywords = <<>>
     THEN handle_unknown(ev, ingested, parsed, mentions)
     ELSE respond_with_current_filters(ev, ingested)

\* ------------------------------ chatbot/conversation.py: the other handlers
\* ConversationMemory.reset, on session s.
memory_reset(s) ==
  [s EXCEPT !.event_filters = <<>>,
            !.conversation_history = <<>>,
            !.last_added_filter = <<>>]

\* ConversationManager._handle_greeting
handle_greeting(s) == [s EXCEPT !.state = "initial"]

\* ConversationManager._handle_language_change: `named` is the language the
\* text names, or NoneVal (the menu is shown).  The language itself is a field
\* of the TranslationService, a collaborator outside the session.
handle_language_change(s, named) == s

\* A variant of handle_cancel_command that always confirms a removal.
handle_cancel_command_always_removed(last_filter) == "removed"

\* fallbacks.handle_cancel_command(last_filter): "Removed '...' from your
\* filters." or "There's nothing to cancel." (<<>> is None).
handle_cancel_command(last_filter) ==
  IF last_filter # <<>> THEN "removed" ELSE "nothing_to_cancel"

\* A variant of _handle_cancel that also drops the cached results.
handle_cancel_drops_results(s, before) ==
  LET last_filter == removed_filter(s.event_filters)
      popped == with_filters(s, remove_last_filter(s.event_filters))
      continues == before.response = "cancelled"
  IN [popped EXCEPT
        !.last_results = <<>>,
        !.results_pointer = 0,
        !.turn.response = "cancelled",
        !.turn.reply = handle_cancel_command(last_filter),
        !.turn.start = IF continues THEN before.start ELSE s.event_filters,
        !.turn.cancelled = (IF continues THEN before.cancelled ELSE <<>>)
                             \o last_filter]

\* A variant of _handle_cancel that also clears the transcript.
handle_cancel_clears_transcript(s, before) ==
  LET last_filter == removed_filter(s.event_filters)
      popped == with_filters(s, remove_last_filter(s.event_filters))
      continues == before.response = "cancelled"
  IN [popped EXCEPT
        !.conversation_history = <<>>,
        !.turn.response = "cancelled",
        !.turn.reply = handle_cancel_command(last_filter),
        !.turn.start = IF continues THEN before.start ELSE s.event_filters,
        !.turn.cancelled = (IF continues THEN before.cancelled ELSE <<>>)
                             \o last_filter]

\* ConversationManager._handle_cancel.  `before` is the record of the turn
\* before this one: a cancel turn that follows a cancel turn continues its run.
handle_cancel(s, before) ==
  LET last_filter == removed_filter(s.event_filters)
      popped == with_filters(s, remove_last_filter(s.event_filters))
      continues == before.response = "cancelled"
  IN [popped EXCEPT
        !.turn.response = "cancelled",
        !.turn.reply = handle_cancel_command(last_filter),
        !.turn.start = IF continues THEN before.start ELSE s.event_filters,
        !.turn.cancelled = (IF continues THEN before.cancelled ELSE <<>>)
                             \o last_filter]

\* A variant of _handle_reset that leaves the phase alone.
handle_reset_keeps_phase(s) ==
  [memory_reset(s) EXCEPT !.last_results = <<>>,
                          !.results_pointer = 0,
                          !.last_removed_filters = <<>>,
                          !.turn.response = "reset"]

\* ConversationManager._handle_reset
handle_reset(s) ==
  [memory_reset(s) EXCEPT !.state = "initial",
                          !.last_results = <<>>,
                          !.results_pointer = 0,
                          !.last_removed_filters = <<>>,
                          !.turn.response = "reset"]

\* A variant of _handle_remember_filters that saves the last filter only.
handle_remember_last_filter(s) ==
  IF s.event_filters = <<>> THEN s
  ELSE [s EXCEPT !.saved_filters = last_of(s.event_filters)]

\* ConversationManager._handle_remember_filters
handle_remember_filters(s) ==
  IF s.event_filters = <<>> THEN s
  ELSE [s EXCEPT !.saved_filters = s.event_filters]

\* A variant of _handle_use_saved_filters that hands the preset over and
\* forgets it.
handle_use_saved_filters_consumes(ev, s) ==
  IF s.saved_filters = <<>> THEN s
  ELSE [respond_with_current_filters(ev, with_filters(s, s.saved_filters))
          EXCEPT !.turn.intent = "use_saved_filters",
                 !.saved_filters = <<>>]

\* A variant of _handle_use_saved_filters that searches with the filters held
\* when nothing is saved.
handle_use_saved_filters_searches_anyway(ev, s) ==
  [respond_with_current_filters(ev,
     IF s.saved_filters = <<>> THEN s ELSE with_filters(s, s.saved_filters))
     EXCEPT !.turn.intent = "use_saved_filters"]

\* ConversationManager._handle_use_saved_filters
handle_use_saved_filters(ev, s) ==
  IF s.saved_filters = <<>> THEN s
  ELSE [respond_with_current_filters(ev, with_filters(s, s.saved_filters))
          EXCEPT !.turn.intent = "use_saved_filters"]

\* A variant of _handle_reset_except that keeps the filters of every kind.
handle_reset_except_keeps_all(ev, s, keep_type) ==
  IF keep_type = NoneVal
  THEN [memory_reset(s) EXCEPT !.last_results = <<>>,
                               !.results_pointer = 0,
                               !.last_removed_filters = <<>>]
  ELSE [respond_with_current_filters(ev, s)
          EXCEPT !.turn.intent = "reset_except",
                 !.turn.before = s.event_filters]

\* ConversationManager._handle_reset_except: keep_type is what
\* _parse_except_filter returned (NoneVal when no category is recognized).
handle_reset_except(ev, s, keep_type) ==
  IF keep_type = NoneVal
  THEN [memory_reset(s) EXCEPT !.last_results = <<>>,
                               !.results_pointer = 0,
                               !.last_removed_filters = <<>>]
  ELSE [respond_with_current_filters(ev,
          with_filters(s, OfType(s.event_filters, keep_type)))
          EXCEPT !.turn.intent = "reset_except",
                 !.turn.before = s.event_filters]

\* ConversationManager._handle_help
handle_help(s) == s

\* A variant of _handle_uncertainty that offers the selection without moving
\* to the awaiting phase.
handle_uncertainty_keeps_phase(s) == [s EXCEPT !.awaiting_random_confirmation = TRUE]

\* ConversationManager._handle_uncertainty
handle_uncertainty(s) ==
  [s EXCEPT !.awaiting_random_confirmation = TRUE,
            !.state = "awaiting_random_response"]

\* random.sample(all_events, k): the lists it can return.
RandomSamples(all_events, k) ==
  { [i \in 1..k |-> all_events[pick[i]]] :
      pick \in { f \in [1..k -> 1..Len(all_events)] :
                   \A i, j \in 1..k : i # j => f[i] # f[j] } }

\* A variant of _handle_random_selection that leaves the pointer alone.
handle_random_selection_unpaged(ev, s, random_events) ==
  LET awaited == [s EXCEPT !.awaiting_random_confirmation = FALSE,
                           !.state = "searching"]
  IN IF get_all_events(ev) = <<>>
     THEN awaited
     ELSE [awaited EXCEPT !.last_results = random_events]

\* ConversationManager._handle_random_selection, random.sample returning
\* random_events.
handle_random_selection(ev, s, random_events) ==
  LET awaited == [s EXCEPT !.awaiting_random_confirmation = FALSE,
                           !.state = "searching"]
  IN IF get_all_events(ev) = <<>>
     THEN awaited
     ELSE [awaited EXCEPT !.last_results = random_events,
                          !.results_pointer = Len(random_events)]

\* A variant of the decline that leaves the confirmation pending.
handle_decline_random_keeps_flag(s) == [s EXCEPT !.state = "initial"]

\* ConversationManager._handle_decline_random
handle_decline_random(s) ==
  [s EXCEPT !.awaiting_random_confirmation = FALSE,
            !.state = "initial"]

\* A variant of _handle_more_results that drops the last filter to widen the
\* list.
handle_more_results_widens(s) ==
  IF s.last_results = <<>> THEN s
  ELSE [s EXCEPT !.event_filters = remove_last_filter(@),
                 !.results_pointer = Len(s.last_results),
                 !.turn.shown = format_search_results(s.last_results),
                 !.turn.response = "more_results"]

\* ConversationManager._handle_more_results: without cached results it only
\* answers; otherwise it renders _format_search_results(self.last_results),
\* followed by "That's all the events I found!", and moves the pointer to the
\* end.
handle_more_results(s) ==
  IF s.last_results = <<>> THEN s
  ELSE [s EXCEPT !.results_pointer = Len(s.last_results),
                 !.turn.shown = format_search_results(s.last_results),
                 !.turn.response = "more_results"]

\* ConversationManager._handle_event_details (it changes no field).
handle_event_details(s) == s

\* ------------------------------------ ConversationManager.process_message
\* The session as it stands.
Session ==
  [event_filters |-> event_filters,
   last_added_filter |-> last_added_filter,
   conversation_history |-> conversation_history,
   state |-> state,
   last_results |-> last_results,
   results_pointer |-> results_pointer,
   last_removed_filters |-> last_removed_filters,
   saved_filters |-> saved_filters,
   awaiting_random_confirmation |-> awaiting_random_confirmation,
   turn |-> turn]

\* process_message up to the routing, on session s: the user message is stored.
RoutedFrom(s) ==
  [s EXCEPT !.conversation_history = Append(@, "user"),
            !.turn = NoTurn]

\* process_message up to the routing, on the session as it stands.
Routed == RoutedFrom(Session)

\* process_message after the handler: the branches other than uncertainty and
\* the two confirmation branches clear the flag; the response is stored.
Answered(s, clears_flag) ==
  [s EXCEPT !.awaiting_random_confirmation = IF clears_flag THEN FALSE ELSE @,
            !.conversation_history = Append(@, "bot")]

\* A routing that takes the confirmation branches whatever the flag.
confirmation_always(s) == TRUE

\* process_message: the test `and self.awaiting_random_confirmation` of the two
\* confirmation branches.
confirmation_awaited(s) == s.awaiting_random_confirmation

\* process_message for intent 'positive_response': _handle_random_selection if
\* a confirmation is awaited, else the final `else` (_handle_unknown on the
\* same text, which clears the flag).
positive_response(ev, s, random_events, parsed, mentions) ==
  LET tagged == [s EXCEPT !.turn.intent = "positive_response",
                          !.turn.awaited = s.awaiting_random_confirmation]
  IN IF confirmation_awaited(s)
     THEN Answered([handle_random_selection(ev, tagged, random_events)
                      EXCEPT !.turn.handler = "random_selection"], FALSE)
     ELSE Answered([handle_unknown(ev, tagged, parsed, mentions)
                      EXCEPT !.turn.handler = "unknown"], TRUE)

\* process_message for intent 'negative_response': _handle_decline_random if a
\* confirmation is awaited, else the final `else`.
negative_response(ev, s, parsed, mentions) ==
  LET tagged == [s EXCEPT !.turn.intent = "negative_response",
                          !.turn.awaited = s.awaiting_random_confirmation]
  IN IF confirmation_awaited(s)
     THEN Answered([handle_decline_random(tagged)
                      EXCEPT !.turn.handler = "decline_random"], FALSE)
     ELSE Answered([handle_unknown(ev, tagged, parsed, mentions)
                      EXCEPT !.turn.handler = "unknown"], TRUE)

\* The transcript has room for the two entries of a turn.
Room == Len(conversation_history) + 2 <= MaxHistory

\* The turn ends in session s (within the explored bounds).
Commit(s) ==
  \E out \in {s} :
    /\ Len(out.event_filters) <= MaxFilters
    /\ Len(out.conversation_history) <= MaxHistory
    /\ event_filters' = out.event_filters
    /\ last_added_filter' = out.last_added_filter
    /\ conversation_history' = out.conversation_history
    /\ state' = out.state
    /\ last_results' = out.last_results
    /\ results_pointer' = out.results_pointer
    /\ last_removed_filters' = out.last_removed_filters
    /\ saved_filters' = out.saved_filters
    /\ awaiting_random_confirmation' = out.awaiting_random_confirmation
    /\ turn' = out.turn
    /\ UNCHANGED events

\* Sequences over S of length at most n.
SeqsUpTo(S, n) == UNION { [1..k -> S] : k \in 0..n }

\* What rules.normalize_input can return for the explored utterances.
ParsedInputs ==
  [event_type : EVENT_TYPES \cup {NoneVal},
   date       : DateValues \cup {NoneVal},
   location   : LocationValues \cup {NoneVal},
   organizer  : ORGANIZERS \cup {NoneVal},
   keywords   : SeqsUpTo(KeywordValues, MaxKeywords)]

NoParsed == [event_type |-> NoneVal, date |-> NoneVal, location |-> NoneVal,
             organizer |-> NoneVal, keywords |-> <<>>]

\* The inputs of _handle_unknown: what normalize_input returns, and whether the
\* tokens mention a filter or search word (when they do not, the text is not
\* normalized at all).
UnknownInputs ==
  {<<NoParsed, FALSE>>} \cup {<<parsed, TRUE>> : parsed \in ParsedInputs}

\* The texts explored after a confirmation word when no confirmation is
\* awaited: the bare word ("yes", "no") or the word with an event type
\* ("yes workshop", "no workshop").
ConfirmationInputs ==
  {<<NoParsed, FALSE>>, <<[NoParsed EXCEPT !.event_type = "workshop"], TRUE>>}

\* What _parse_except_filter can return.
KeepTypes == FilterTypes \cup {NoneVal}

Greeting ==
  /\ Room
  /\ Commit(Answered(handle_greeting(Routed), TRUE))

ChangeLanguage ==
  /\ Room
  /\ \E named \in {"english", NoneVal} :
    Commit(Answered(handle_language_change(Routed, named), TRUE))

Uncertainty ==
  /\ Room
  /\ Commit(Answered(handle_uncertainty(Routed), FALSE))

\* intent == 'positive_response': the random selection while a confirmation is
\* awaited, the final `else` otherwise.
PositiveResponse ==
  /\ Room
  /\ IF confirmation_awaited(Routed)
     THEN \E random_events \in RandomSamples(events, Min(RandomCount, Len(events))) :
            Commit(positive_response(events, Routed, random_events, NoParsed, FALSE))
     ELSE \E input \in ConfirmationInputs :
            Commit(positive_response(events, Routed, <<>>, input[1], input[2]))

\* intent == 'negative_response': the decline handler while a confirmation is
\* awaited, the final `else` otherwise.
NegativeResponse ==
  /\ Room
  /\ IF confirmation_awaited(Routed)
     THEN Commit(negative_response(events, Routed, NoParsed, FALSE))
     ELSE \E input \in ConfirmationInputs :
            Commit(negative_response(events, Routed, input[1], input[2]))

Cancel ==
  /\ Room
  /\ Commit(Answered(handle_cancel(Routed, turn), TRUE))

Reset == Commit(Answered(handle_reset(Routed), TRUE))

Help ==
  /\ Room
  /\ Commit(Answered(handle_help(Routed), TRUE))

RememberFilters ==
  /\ Room
  /\ Len(event_filters) <= MaxSaved
  /\ Commit(Answered(handle_remember_filters(Routed), TRUE))

UseSavedFilters ==
  /\ Room
  /\ Commit(Answered(handle_use_saved_filters(events, Routed), TRUE))

\* (Without a category the handler clears the transcript; with one the turn
\* adds its two entries.)
ResetExcept ==
  \E keep_type \in KeepTypes :
    /\ keep_type # NoneVal => Room
    /\ Commit(Answered(handle_reset_except(events, Routed, keep_type), TRUE))

FindEvent ==
  /\ Room
  /\ \E parsed \in ParsedInputs, mentions \in BOOLEAN :
       /\ parsed # NoParsed => mentions
       /\ Commit(Answered(handle_event_search(events, Routed, parsed, mentions),
                          TRUE))

MoreResults ==
  /\ Room
  /\ Commit(Answered(handle_more_results(Routed), TRUE))

GetDetails ==
  /\ Room
  /\ Commit(Answered(handle_event_details(Routed), TRUE))

\* The final `else` of process_message for intent 'unknown'.
Unknown ==
  /\ Room
  /\ \E input \in UnknownInputs :
       Commit(Answered(handle_unknown(events, Routed, input[1], input[2]), TRUE))

\* ConversationManager.__init__ over a loaded EventDatabase.
Init ==
  /\ events \in Catalogs
  /\ event_filters = <<>>
  /\ last_added_filter = <<>>
  /\ conversation_history = <<>>
  /\ state = "initial"
  /\ last_results = <<>>
  /\ results_pointer = 0
  /\ last_removed_filters = <<>>
  /\ saved_filters = <<>>
  /\ awaiting_random_confirmation = FALSE
  /\ turn = NoTurn

Next ==
  \/ Greeting
  \/ ChangeLanguage
  \/ Uncertainty
  \/ PositiveResponse
  \/ NegativeResponse
  \/ Cancel
  \/ Reset
  \/ Help
  \/ RememberFilters
  \/ UseSavedFilters
  \/ ResetExcept
  \/ FindEvent
  \/ MoreResults
  \/ GetDetails
  \/ Unknown

Spec == Init /\ [][Next]_vars

\* ------------------------------------------- the store and the query alone
\* ConversationMemory and EventDatabase driven directly (as the unit tests
\* drive them), over filters of all five kinds.
MaxStore == 3

StoreFilters ==
  [type : {"event_type"}, value : {"workshop", "seminar"}]
    \cup [type : {"date"}, value : {"today", "tomorrow"}]
    \cup [type : {"location"}, value : {"library", "quad"}]
    \cup [type : {"organizer"}, value : {"arc", "club"}]
    \cup [type : {"keyword"}, value : {"python", "tech"}]

OnlyStore == <<events, conversation_history, state, last_results, results_pointer,
               last_removed_filters, saved_filters, awaiting_random_confirmation,
               turn>>

\* memory.add_filter(type, value)
MemAddFilter ==
  \E f \in StoreFilters :
    /\ Len(event_filters) < MaxStore
    /\ event_filters' = add_filter(event_filters, f.type, f.value)
    /\ last_added_filter' = <<f>>
    /\ UNCHANGED OnlyStore

\* memory.remove_last_filter()
MemRemoveLastFilter ==
  /\ event_filters' = remove_last_filter(event_filters)
  /\ last_added_filter' = IF event_filters # <<>> THEN last_of(event_filters')
                          ELSE last_added_filter
  /\ UNCHANGED OnlyStore

\* memory.clear_filters()
MemClearFilters ==
  /\ event_filters' = <<>>
  /\ last_added_filter' = <<>>
  /\ UNCHANGED OnlyStore

NextStore == MemAddFilter \/ MemRemoveLastFilter \/ MemClearFilters

SpecStore == Init /\ [][NextStore]_vars

\* ------------------------------------- the query service called directly
\* db.search_events(memory.get_filters()), as test_database_search calls it,
\* once per run; the query and its result are recorded.
DbSearchEvents ==
  /\ ~turn.searched
  /\ last_results' = search_events(events, event_filters)
  /\ turn' = [NoTurn EXCEPT !.searched = TRUE, !.queries = <<event_filters>>]
  /\ UNCHANGED <<events, event_filters, last_added_filter, conversation_history,
                 state, results_pointer, last_removed_filters, saved_filters,
                 awaiting_random_confirmation>>

\* The filter list is built through the memory API before the one query.
BuildQuery ==
  /\ ~turn.searched
  /\ (MemAddFilter \/ MemRemoveLastFilter \/ MemClearFilters)

NextSearch == BuildQuery \/ DbSearchEvents

SpecSearch == Init /\ [][NextSearch]_vars

\* ------------------------------------------------ paging a long result list
\* Sessions over a catalog with more matching events than one response renders.
PagingCatalogs == { <<"e1", "e2", "e4", "e5", "e6", "e7">> }

InitPaging ==
  /\ events \in PagingCatalogs
  /\ event_filters = <<>>
  /\ last_added_filter = <<>>
  /\ conversation_history = <<>>
  /\ state = "initial"
  /\ last_results = <<>>
  /\ results_pointer = 0
  /\ last_removed_filters = <<>>
  /\ saved_filters = <<>>
  /\ awaiting_random_confirmation = FALSE
  /\ turn = NoTurn

NextPaging ==
  \/ FindEvent
  \/ MoreResults
  \/ Cancel
  \/ ResetExcept

SpecPaging == InitPaging /\ [][NextPaging]_vars

\* ------------------------------------------ process_message, line by line
\* Spec above explores the routing of process_message taking the call at line
\* 42 to return its argument.  Here the call is resolved as Python resolves
\* it: by attribute lookup on the TranslationService instance.

\* chatbot/translator.py: the attributes of class TranslationService.
TranslationServiceMethods ==
  {"SUPPORTED_LANGUAGES", "__init__", "_initialize_translator", "set_language",
   "get_current_language_name", "translate", "get_language_menu"}

MaxMessages == 2

\* One utterance for each intent of the enumeration.
MessageTexts ==
  {"hello", "change language", "idk", "yes", "no", "cancel", "reset", "help",
   "remember this", "use saved filters", "reset except date", "find workshops",
   "show more", "details for evt001", "xyzzy"}

\* process_message(user_input): line 39 stores the user entry; line 42 looks
\* up translator.translate_to_english, which raises AttributeError when the
\* class has no such attribute, and the exception leaves process_message;
\* otherwise the message is routed (lines 44-106, the actions of Next).
ProcessMessage ==
  IF "translate_to_english" \in TranslationServiceMethods
  THEN Next
  ELSE \E user_input \in MessageTexts :
         /\ Len(conversation_history) < MaxMessages
         /\ conversation_history' =
              Append(conversation_history,
                     [speaker |-> "user", message |-> user_input])
         /\ turn' = [NoTurn EXCEPT !.response = "AttributeError"]
         /\ UNCHANGED <<events, event_filters, last_added_filter, state,
                        last_results, results_pointer, last_removed_filters,
                        saved_filters, awaiting_random_confirmation>>

SpecMessage == Init /\ [][ProcessMessage]_vars

\* ------------------------------------------------ chatbot/rules.py: texts
\* A text is a string; its characters are read with Head, Tail and SubSeq.
Digits == {"0", "1", "2", "3", "4", "5", "6", "7", "8", "9"}

UpperCase == "ABCDEFGHIJKLMNOPQRSTUVWXYZ"

LowerCase == "abcdefghijklmnopqrstuvwxyz"

\* string.punctuation (but for the backquote, which no text here holds).
Punctuation ==
  {"!", "\"", "#", "$", "%", "&", "'", "(", ")", "*", "+", ",", "-", ".", "/",
   ":", ";", "<", "=", ">", "?", "@", "[", "\\", "]", "^", "_", "{", "|", "}",
   "~"}

\* str.lower() on one character.
lower_char(c) ==
  IF \E i \in 1..Len(UpperCase) : SubSeq(UpperCase, i, i) = c
  THEN LET i == CHOOSE i \in 1..Len(UpperCase) : SubSeq(UpperCase, i, i) = c
       IN SubSeq(LowerCase, i, i)
  ELSE c

RECURSIVE str_lower(_)
\* str.lower()
str_lower(s) ==
  IF Len(s) = 0 THEN s ELSE lower_char(Head(s)) \o str_lower(Tail(s))

RECURSIVE str_lstrip(_)
\* str.lstrip() (the only whitespace of the texts is the space).
str_lstrip(s) ==
  IF Len(s) > 0 /\ Head(s) = " " THEN str_lstrip(Tail(s)) ELSE s

RECURSIVE str_rstrip(_)
\* str.rstrip()
str_rstrip(s) ==
  IF Len(s) > 0 /\ SubSeq(s, Len(s), Len(s)) = " "
  THEN str_rstrip(SubSeq(s, 1, Len(s) - 1)) ELSE s

\* str.strip()
str_strip(s) == str_rstrip(str_lstrip(s))

RECURSIVE split_loop(_, _, _)
\* str.split(): `word` is the token being read, `tokens` those read so far.
split_loop(s, word, tokens) ==
  LET closed == IF Len(word) = 0 THEN tokens ELSE Append(tokens, word)
  IN IF Len(s) = 0 THEN closed
     ELSE IF Head(s) = " " THEN split_loop(Tail(s), "", closed)
     ELSE split_loop(Tail(s), word \o Head(s), tokens)

\* str.split()
str_split(s) == split_loop(s, "", <<>>)

RECURSIVE remove_punctuation(_)
\* text.translate(str.maketrans('', '', string.punctuation))
remove_punctuation(s) ==
  IF Len(s) = 0 THEN s
  ELSE IF Head(s) \in Punctuation THEN remove_punctuation(Tail(s))
  ELSE Head(s) \o remove_punctuation(Tail(s))

\* `needle in hay` on strings.
str_in(needle, hay) ==
  \E i \in 1..(Len(hay) - Len(needle) + 1) :
    SubSeq(hay, i, i + Len(needle) - 1) = needle

\* str.startswith(prefix)
startswith(s, prefix) ==
  Len(prefix) <= Len(s) /\ SubSeq(s, 1, Len(prefix)) = prefix

\* str.endswith(suffix)
endswith(s, suffix) ==
  Len(suffix) <= Len(s) /\ SubSeq(s, Len(s) - Len(suffix) + 1, Len(s)) = suffix

\* word[:-n]
drop_last(word, n) == SubSeq(word, 1, Len(word) - n)

\* str.isdigit()
isdigit(s) ==
  Len(s) > 0 /\ \A i \in 1..Len(s) : SubSeq(s, i, i) \in Digits

\* any(word in words for word in tokens)
any_token_in(tokens, words) == \E i \in 1..Len(tokens) : tokens[i] \in words

\* any(phrase in text for phrase in phrases)
any_phrase_in(phrases, text) == \E phrase \in phrases : str_in(phrase, text)

\* ChatbotRules.EVENT_TYPES, the whole list.
EventTypeWords ==
  {"workshop", "meetup", "lecture", "seminar", "party", "social",
   "networking"}

\* ChatbotRules.ORGANIZERS, the whole list.
OrganizerWords ==
  {"arc", "library", "club", "clubs", "founders", "makerspace", "unsw"}

\* ChatbotRules.HELP_KEYWORDS
HELP_KEYWORDS ==
  {"help", "assist", "assistance", "support", "guidance", "how", "info"}

\* ChatbotRules.GREETING_WORDS
GREETING_WORDS ==
  {"hi", "hello", "hey", "greetings", "good", "morning", "afternoon",
   "evening"}

\* ChatbotRules.TOPIC_KEYWORDS
TOPIC_KEYWORDS ==
  {"coding", "programming", "tech", "technology", "computer", "software",
   "hardware", "python", "java", "javascript", "web", "app", "mobile", "ai",
   "ml", "data", "cyber", "security", "blockchain", "game", "gaming", "vr",
   "ar", "cloud", "database", "design", "graphic", "ui", "ux", "art",
   "creative", "photography", "video", "animation", "film", "music",
   "theater", "performance", "drawing", "painting", "business",
   "entrepreneurship", "startup", "marketing", "finance", "accounting",
   "consulting", "leadership", "management", "career", "professional",
   "internship", "networking", "resume", "interview", "research", "science",
   "engineering", "math", "physics", "chemistry", "biology", "medicine",
   "health", "psychology", "law", "history", "literature", "language",
   "culture", "cultural", "diversity", "community", "volunteer", "charity",
   "social", "environment", "sustainability", "activism", "politics",
   "debate", "discussion", "sport", "sports", "fitness", "yoga", "wellness",
   "mental", "mindfulness", "meditation", "dance", "running", "soccer",
   "basketball", "volleyball", "food", "cooking", "baking", "coffee", "wine",
   "dining", "culinary", "dumplings", "outdoor", "hiking", "beach", "picnic",
   "nature", "camping", "adventure", "motorcycle", "ride", "scenic",
   "walking", "swimming", "party", "celebration", "awards", "graduation",
   "year-end", "festive", "holiday", "bbq", "fundraiser", "marathon",
   "competition", "tournament", "championships", "collaboration", "teamwork",
   "board games", "tabletop", "rpg", "pokemon", "nintendo", "student",
   "study", "academic", "exam", "tutorial", "session", "training",
   "revision", "mock", "prep", "gamsat", "finals", "hackathon", "showcase",
   "exhibition", "conference", "panel", "seminar", "relaxation", "stress",
   "casual", "free", "online"}

\* ChatbotRules.FILLER_WORDS
FILLER_WORDS ==
  {"the", "a", "an", "uh", "uhm", "um", "er", "ah", "oh", "hmm", "like",
   "just", "so", "well", "basically", "actually", "literally", "seriously",
   "really", "very", "pretty", "kinda", "sorta", "kind", "sort", "maybe",
   "probably", "perhaps", "possibly", "some", "any", "all", "every", "each",
   "lot", "lots", "much", "many", "few", "that", "this", "these", "those",
   "it", "its", "is", "are", "was", "were", "be", "been", "being", "have",
   "has", "had", "having", "do", "does", "did", "doing", "done", "will",
   "would", "could", "should", "shall", "may", "might", "must", "can",
   "cant", "in", "on", "at", "by", "with", "from", "of", "to", "as", "for",
   "i", "me", "my", "mine", "you", "your", "yours", "and", "or", "but",
   "nor", "yet", "involve", "involves", "involving", "include", "includes",
   "including", "contain", "contains", "containing", "feature", "features",
   "featuring"}

\* ChatbotRules.SEARCH_WORDS
SEARCH_WORDS ==
  {"find", "search", "locate", "discover", "browse", "explore", "show",
   "see", "check", "list", "view", "display", "pull", "fetch", "found",
   "results", "result", "whats", "what", "where", "when", "which", "who",
   "are", "is", "there", "available", "happening", "going", "on", "around",
   "got", "get", "give", "tell", "suggest", "looking", "interested", "want",
   "need", "like", "love", "prefer", "attend", "join", "participate", "go",
   "come", "im", "tryna", "trying", "wanna", "gonna", "gotta", "help",
   "assist", "suggestions", "options", "ideas", "events", "event", "for",
   "me", "any", "some", "stuff", "things", "upcoming", "future", "new",
   "can", "could", "would", "should"}

\* ChatbotRules.DATE_WORDS
DATE_WORDS ==
  {"today", "tomorrow", "yesterday", "tonight", "day", "days", "week",
   "weeks", "weekend", "weekday", "weekdays", "month", "months", "year",
   "years", "next", "this", "last", "coming", "past", "previous", "current",
   "upcoming", "future", "recent", "monday", "tuesday", "wednesday",
   "thursday", "friday", "saturday", "sunday", "mon", "tue", "wed", "thu",
   "fri", "sat", "sun", "morning", "afternoon", "evening", "night", "midday",
   "noon", "midnight", "now", "soon", "later", "ago", "before", "after",
   "january", "february", "march", "april", "may", "june", "july", "august",
   "september", "october", "november", "december", "jan", "feb", "mar",
   "apr", "jun", "jul", "aug", "sep", "oct", "nov", "dec"}

\* ChatbotRules.singularize
singularize(word) ==
  IF Len(word) <= 2 THEN word
  ELSE IF endswith(word, "ing") /\ Len(word) > 4
  THEN LET base == drop_last(word, 3)
           base_with_y == base \o "y"
       IN IF /\ Len(base) > 0
             /\ ~str_in(SubSeq(base, Len(base), Len(base)), "aeiou")
             /\ base_with_y \in EventTypeWords
          THEN base_with_y
          ELSE base
  ELSE IF endswith(word, "ies") /\ Len(word) > 3 THEN drop_last(word, 3) \o "y"
  ELSE IF endswith(word, "ves") THEN drop_last(word, 3) \o "fe"
  ELSE IF endswith(word, "ses") /\ Len(word) > 3 THEN drop_last(word, 2)
  ELSE IF endswith(word, "s") /\ ~endswith(word, "ss") THEN drop_last(word, 1)
  ELSE word

\* [singularize(token) for token in tokens]
singular_of(tokens) == [i \in 1..Len(tokens) |-> singularize(tokens[i])]

\* ChatbotRules._contains_filter_tokens
contains_filter_tokens(tokens) ==
  \/ any_token_in(tokens, EventTypeWords)
  \/ any_token_in(tokens, OrganizerWords)
  \/ any_token_in(tokens, DATE_WORDS)
  \/ \E i \in 1..Len(tokens) : isdigit(tokens[i])

\* ChatbotRules.contains_greeting
contains_greeting(user_input) ==
  LET normalized == str_strip(str_lower(user_input))
      tokens == str_split(normalized)
  IN \/ any_phrase_in({"good morning", "good afternoon", "good evening"},
                      normalized)
     \/ any_token_in(tokens, GREETING_WORDS)

\* detect_intent: the lists it tests against.
uncertainty_phrases ==
  {"i don't know", "i dont know", "idk", "not sure", "unsure", "don't know",
   "dont know", "no idea", "no clue", "dunno", "whatever", "anything",
   "surprise me"}

positive_phrases == {"yes", "yeah", "yep", "sure", "ok", "okay", "yea", "ya"}

negative_phrases == {"no", "nah", "nope", "not really", "no thanks", "no thank you"}

more_phrases ==
  {"more events", "show more", "see more", "more results", "more please"}

\* detect_intent: the condition under which the branch that returns `intent`
\* is taken when it is reached.
trigger(intent, user_input) ==
  LET normalized == str_strip(str_lower(user_input))
      tokens == str_split(normalized)
      singular_tokens == singular_of(tokens)
  IN CASE intent = "uncertainty" ->
            any_phrase_in(uncertainty_phrases, normalized)
       [] intent = "positive_response" ->
            \/ normalized \in positive_phrases
            \/ \E p \in positive_phrases : startswith(normalized, p \o " ")
       [] intent = "negative_response" ->
            \/ normalized \in negative_phrases
            \/ any_phrase_in(negative_phrases, normalized)
       [] intent = "change_language" ->
            str_in("language", normalized) \/ str_in("langue", normalized)
       [] intent = "help" -> any_token_in(tokens, HELP_KEYWORDS)
       [] intent = "remember_filters" ->
            \/ str_in("remember this", normalized)
            \/ startswith(normalized, "remember ")
       [] intent = "use_saved_filters" ->
            \/ str_in("use saved", normalized)
            \/ str_in("use saved filters", normalized)
            \/ str_in("load saved filters", normalized)
       [] intent = "reset_except" -> str_in("reset except", normalized)
       [] intent = "cancel" -> any_token_in(tokens, {"cancel", "undo", "back"})
       [] intent = "reset" ->
            \/ any_token_in(tokens, {"reset", "restart", "clear"})
            \/ str_in("start over", normalized)
       [] intent = "get_details" ->
            \/ any_token_in(tokens, {"details", "detail"})
            \/ any_phrase_in({"tell me more", "more info", "more about"},
                             normalized)
            \/ /\ any_token_in(tokens, {"about"})
               /\ \E i \in 1..Len(tokens) :
                    isdigit(tokens[i]) \/ startswith(tokens[i], "evt")
       [] intent = "more_results" -> any_phrase_in(more_phrases, normalized)
       [] intent = "find_event" ->
            \/ any_token_in(tokens, SEARCH_WORDS)
            \/ contains_filter_tokens(singular_tokens)
       [] intent = "greeting" -> contains_greeting(user_input)
       [] OTHER -> FALSE

\* A variant of detect_intent that tests the reset words before the cancel
\* words.
detect_intent_reset_first(user_input) ==
  IF trigger("uncertainty", user_input) THEN "uncertainty"
  ELSE IF trigger("positive_response", user_input) THEN "positive_response"
  ELSE IF trigger("negative_response", user_input) THEN "negative_response"
  ELSE IF trigger("change_language", user_input) THEN "change_language"
  ELSE IF trigger("help", user_input) THEN "help"
  ELSE IF trigger("remember_filters", user_input) THEN "remember_filters"
  ELSE IF trigger("use_saved_filters", user_input) THEN "use_saved_filters"
  ELSE IF trigger("reset_except", user_input) THEN "reset_except"
  ELSE IF trigger("reset", user_input) THEN "reset"
  ELSE IF trigger("cancel", user_input) THEN "cancel"
  ELSE IF trigger("get_details", user_input) THEN "get_details"
  ELSE IF trigger("more_results", user_input) THEN "more_results"
  ELSE IF trigger("find_event", user_input) THEN "find_event"
  ELSE IF trigger("greeting", user_input) THEN "greeting"
  ELSE "unknown"

\* ChatbotRules.detect_intent: the chain of tests, each returning at once.
detect_intent(user_input) ==
  IF trigger("uncertainty", user_input) THEN "uncertainty"
  ELSE IF trigger("positive_response", user_input) THEN "positive_response"
  ELSE IF trigger("negative_response", user_input) THEN "negative_response"
  ELSE IF trigger("change_language", user_input) THEN "change_language"
  ELSE IF trigger("help", user_input) THEN "help"
  ELSE IF trigger("remember_filters", user_input) THEN "remember_filters"
  ELSE IF trigger("use_saved_filters", user_input) THEN "use_saved_filters"
  ELSE IF trigger("reset_except", user_input) THEN "reset_except"
  ELSE IF trigger("cancel", user_input) THEN "cancel"
  ELSE IF trigger("reset", user_input) THEN "reset"
  ELSE IF trigger("get_details", user_input) THEN "get_details"
  ELSE IF trigger("more_results", user_input) THEN "more_results"
  ELSE IF trigger("find_event", user_input) THEN "find_event"
  ELSE IF trigger("greeting", user_input) THEN "greeting"
  ELSE "unknown"

\* normalize_input: `for word in filtered_words: if word in LIST: ... = word`
\* (the last such word, or None).
last_word_in(filtered_words, words) ==
  LET hits == SelectSeq(filtered_words, LAMBDA w : w \in words)
  IN IF hits = <<>> THEN NoneVal ELSE hits[Len(hits)]

\* normalize_input: the date keywords (`word` ranges over the unfiltered words).
extract_date(text, words) ==
  IF str_in("today", text) THEN "today"
  ELSE IF str_in("tomorrow", text) THEN "tomorrow"
  ELSE IF str_in("week", text)
  THEN IF str_in("next", text) THEN "next_week"
       ELSE IF str_in("this", text) THEN "this_week"
       ELSE NoneVal
  ELSE IF str_in("day", text) \/ str_in("days", text)
  THEN LET numbers == SelectSeq(words, isdigit)
       IN IF numbers = <<>> THEN NoneVal
          ELSE numbers[Len(numbers)] \o " days"
  ELSE NoneVal

\* ChatbotRules._extract_location on a text without punctuation (the label
\* pattern needs ':' or '='): the word after the first word 'in' or 'at' that
\* has a word after it.
extract_location(text) ==
  LET words == str_split(text)
      places == {i \in 1..(Len(words) - 1) : words[i] \in {"in", "at"}}
  IN IF places = {} THEN NoneVal
     ELSE words[(CHOOSE i \in places : \A j \in places : i <= j) + 1]

\* ChatbotRules.normalize_input
normalize_input(user_input) ==
  LET text == remove_punctuation(str_strip(str_lower(user_input)))
      words == str_split(text)
      filtered_words ==
        singular_of(SelectSeq(words, LAMBDA w : w \notin FILLER_WORDS))
      potential_keywords ==
        SelectSeq(filtered_words,
                  LAMBDA w : /\ w \notin EventTypeWords
                             /\ w \notin OrganizerWords
                             /\ w \notin DATE_WORDS
                             /\ w \notin SEARCH_WORDS
                             /\ w \notin GREETING_WORDS
                             /\ ~isdigit(w))
  IN [event_type |-> last_word_in(filtered_words, EventTypeWords),
      date |-> extract_date(text, words),
      location |-> extract_location(text),
      organizer |-> last_word_in(filtered_words, OrganizerWords),
      keywords |-> SelectSeq(potential_keywords,
                             LAMBDA w : w \in TOPIC_KEYWORDS \/ Len(w) >= 5)]

\* ------------------------------------------- the rules driven directly
\* detect_intent and normalize_input are static methods: each is called on a
\* text, as the unit tests call them, and `turn` records the call.
MaxPhrases == 2

\* One phrase for each test of detect_intent, and one that passes none.
TriggerPhrases ==
  {"idk", "yes", "no", "language", "help", "remember this", "use saved",
   "reset except", "cancel", "reset", "details", "show more", "find", "hello",
   "xyzzy"}

RECURSIVE PhraseTexts(_)
\* The texts made of at most n trigger phrases, separated by a space.
PhraseTexts(n) ==
  IF n = 1 THEN TriggerPhrases
  ELSE PhraseTexts(n - 1)
         \cup {t \o " " \o p : t \in PhraseTexts(n - 1), p \in TriggerPhrases}

\* The plural forms of the event types.
PluralEventTypes ==
  {"workshops", "meetups", "lectures", "seminars", "parties", "socials"}

\* The texts that consist of one filter word, and the three of
\* test_intent_detection.
FilterWordTexts ==
  OrganizerWords \cup EventTypeWords \cup PluralEventTypes \cup DATE_WORDS
    \cup {"Arc", "this week", "workshops"}

\* Sentences for normalize_input (the first is that of
\* test_input_normalization).
SentenceTexts ==
  {"Find me a workshop about coding", "find python workshops",
   "Arc events in library today", "show me parties next week",
   "any seminar at unsw in 3 days?"}

Utterances == PhraseTexts(MaxPhrases) \cup FilterWordTexts \cup SentenceTexts

\* rules.detect_intent(user_input)
DetectIntent ==
  /\ turn = NoTurn
  /\ \E user_input \in Utterances :
       turn' = [NoTurn EXCEPT !.handler = "detect_intent",
                              !.text = user_input,
                              !.intent = detect_intent(user_input)]
  /\ UNCHANGED <<events, event_filters, last_added_filter,
                 conversation_history, state, last_results, results_pointer,
                 last_removed_filters, saved_filters,
                 awaiting_random_confirmation>>

\* rules.normalize_input(user_input)
NormalizeInput ==
  /\ turn = NoTurn
  /\ \E user_input \in Utterances :
       turn' = [NoTurn EXCEPT !.handler = "normalize_input",
                              !.text = user_input,
                              !.parsed = normalize_input(user_input)]
  /\ UNCHANGED <<events, event_filters, last_added_filter,
                 conversation_history, state, last_results, results_pointer,
                 last_removed_filters, saved_filters,
                 awaiting_random_confirmation>>

NextRules == DetectIntent \/ NormalizeInput

SpecRules == Init /\ [][NextRules]_vars

\* --------------------------------- conversation.py: _handle_event_details
\* The 'id' field of event e in data/events.json (evt001, evt002, ...).
event_id_of(e) == "evt00" \o Tail(e)

\* EventDatabase.get_event_by_id: <<event>>, or <<>> for None.
get_event_by_id(ev, event_id) ==
  LET found == SelectSeq(ev, LAMBDA e : event_id_of(e) = event_id)
  IN IF found = <<>> THEN <<>> ELSE <<Head(found)>>

\* A character that \b counts as part of a word.
is_word_char(c) ==
  \/ c \in Digits
  \/ c = "_"
  \/ str_in(c, LowerCase)
  \/ str_in(c, UpperCase)

\* The length of the run of digits of s that starts at position i.
digits_from(s, i) ==
  LET ends == {j \in i..Len(s) : \A k \in i..j : SubSeq(s, k, k) \in Digits}
  IN Cardinality(ends)

\* re.search(r'(evt\d+)', text): group(1), or NoneVal when there is no match.
search_event_id(text) ==
  LET starts == {i \in 1..(Len(text) - 3) :
                   SubSeq(text, i, i + 2) = "evt" /\ digits_from(text, i + 3) > 0}
  IN IF starts = {} THEN NoneVal
     ELSE LET i == CHOOSE i \in starts : \A j \in starts : i <= j
          IN SubSeq(text, i, i + 2 + digits_from(text, i + 3))

\* re.search(r'\b(\d+)\b', text): group(1), or NoneVal when there is no match.
search_number(text) ==
  LET starts ==
        {i \in 1..Len(text) :
           /\ digits_from(text, i) > 0
           /\ i = 1 \/ ~is_word_char(SubSeq(text, i - 1, i - 1))
           /\ LET next == i + digits_from(text, i)
              IN next > Len(text) \/ ~is_word_char(SubSeq(text, next, next))}
  IN IF starts = {} THEN NoneVal
     ELSE LET i == CHOOSE i \in starts : \A j \in starts : i <= j
          IN SubSeq(text, i, i + digits_from(text, i) - 1)

\* int() on one digit.
digit_value(c) == CHOOSE d \in 0..9 : SubSeq("0123456789", d + 1, d + 1) = c

RECURSIVE to_int(_)
\* int(digits)
to_int(digits) ==
  IF Len(digits) = 0 THEN 0
  ELSE 10 * to_int(drop_last(digits, 1))
         + digit_value(SubSeq(digits, Len(digits), Len(digits)))

\* _handle_event_details, `match = re.search(r'(evt\d+)', ...)`: the event
\* with the id the text names.
by_event_id(ev, user_text) ==
  LET event_id == search_event_id(user_text)
  IN IF event_id = NoneVal THEN <<>> ELSE get_event_by_id(ev, str_lower(event_id))

\* _handle_event_details, `number_match`: the cached result the first number
\* of the text counts to.
by_result_number(results, user_text) ==
  LET number == search_number(user_text)
  IN IF results = <<>> \/ number = NoneVal THEN <<>>
     ELSE LET idx == to_int(number) - 1
          IN IF 0 <= idx /\ idx < Len(results) THEN <<results[idx + 1]>>
             ELSE <<>>

\* _handle_event_details, `for candidate in ...: if title in user_text`: the
\* first event of the list whose lower-cased title the text contains.
by_title(candidates, user_text) ==
  LET named == SelectSeq(candidates,
                         LAMBDA e : str_in(str_lower(EventRec(e).title), user_text))
  IN IF named = <<>> THEN <<>> ELSE <<Head(named)>>

\* A variant of the resolution that tries the result number before the id.
event_details_target_number_first(ev, results, user_input) ==
  LET user_text == str_lower(user_input)
      numbered == by_result_number(results, user_text)
      identified == IF numbered # <<>> THEN numbered
                    ELSE by_event_id(ev, user_text)
      listed == IF identified # <<>> THEN identified
                ELSE by_title(results, user_text)
  IN IF listed # <<>> THEN listed ELSE by_title(get_all_events(ev), user_text)

\* _handle_event_details, lines 307-337: the event the text refers to (<<>>
\* when `event` is still None).
event_details_target(ev, results, user_input) ==
  LET user_text == str_lower(user_input)
      identified == by_event_id(ev, user_text)
      numbered == IF identified # <<>> THEN identified
                  ELSE by_result_number(results, user_text)
      listed == IF numbered # <<>> THEN numbered
                ELSE by_title(results, user_text)
  IN IF listed # <<>> THEN listed ELSE by_title(get_all_events(ev), user_text)

\* _handle_event_details: its response (the details of the event, or one of
\* its two requests for clarification).
event_details_response(ev, results, user_input) ==
  IF event_details_target(ev, results, user_input) # <<>> THEN "details"
  ELSE IF results # <<>> THEN "which_event"
  ELSE "event_not_found"

\* The texts of the details requests explored.
DetailTexts ==
  {"details", "details evt003", "details EVT001", "details evt999",
   "details 2", "tell me more about 2", "details 9", "details 0",
   "details evt999 2", "details evt002 3", "details 9 2", "details robotics",
   "details research talk robotics", "details 2 robotics",
   "more about pitch night"}

\* process_message for intent 'get_details', with the request recorded.
GetDetailsOf ==
  /\ Room
  /\ \E user_input \in DetailTexts :
       Commit(Answered(
         [handle_event_details(Routed) EXCEPT
            !.turn.handler = "event_details",
            !.turn.text = user_input,
            !.turn.shown = event_details_target(events, last_results, user_input),
            !.turn.response =
              event_details_response(events, last_results, user_input)],
         TRUE))

NextDetails == FindEvent \/ GetDetailsOf

SpecDetails == Init /\ [][NextDetails]_vars

\* --------------------------------------- the final `else` driven by texts
\* _handle_unknown's first test on the text: the raw tokens hold a filter word
\* or one of the generic search and activity words.
unknown_mentions(user_input) ==
  LET tokens == str_split(str_lower(user_input))
  IN \/ contains_filter_tokens(tokens)
     \/ any_token_in(tokens, {"event", "events", "activity", "activities",
                              "find", "search"})

\* _handle_unknown: what it answers with (the response of the search, or
\* fallbacks.handle_actionable_unknown's purpose reminder).
unknown_reply(parsed, mentions) ==
  IF mentions /\ has_structured_filters(parsed) THEN "search"
  ELSE "purpose_reminder"

\* Texts that reach the final `else` of process_message: detect_intent finds
\* no intent, or a confirmation word while no confirmation is awaited.
UnknownTexts ==
  {"???", "xyzzy", "blah blah", "founders", "networking", "coming",
   "yes", "nope", "yes workshop", "ok seminar", "yes arc workshop"}

\* What the rules and _handle_unknown compute from each of the texts.
UnknownReadings ==
  [user_input \in UnknownTexts |->
     [intent |-> detect_intent(user_input),
      parsed |-> normalize_input(user_input),
      mentions |-> unknown_mentions(user_input)]]

\* process_message, lines 91-93, with the text and the answer recorded.
UnknownOf ==
  /\ Room
  /\ \E user_input \in UnknownTexts :
       LET intent == UnknownReadings[user_input].intent
           parsed == UnknownReadings[user_input].parsed
           mentions == UnknownReadings[user_input].mentions
       IN /\ \/ intent = "unknown"
             \/ /\ intent \in {"positive_response", "negative_response"}
                /\ ~awaiting_random_confirmation
          /\ Commit(Answered(
               [handle_unknown(events, Routed, parsed, mentions) EXCEPT
                  !.turn.handler = "unknown",
                  !.turn.text = user_input,
                  !.turn.reply = unknown_reply(parsed, mentions),
                  !.turn.listed = IF unknown_reply(parsed, mentions) = "search"
                                  THEN <<>> ELSE event_filters],
               TRUE))

NextUnknown == FindEvent \/ UnknownOf \/ Uncertainty \/ RememberFilters

SpecUnknown == Init /\ [][NextUnknown]_vars

\* --------------------------------------- find_event turns driven by texts
\* Utterances that name filters of several kinds, in different word orders.
IngestTexts ==
  {"tech workshop arc", "arc tech workshop", "workshop arc tech",
   "tomorrow seminar arc", "arc seminar tomorrow",
   "workshop in quad today", "today in quad workshop",
   "design arc", "arc design", "python seminar", "seminar python",
   "seminar", "today tech arc workshop"}

\* What the rules and _handle_unknown compute from each of the texts.
IngestReadings ==
  [user_input \in IngestTexts |->
     [intent |-> detect_intent(user_input),
      parsed |-> normalize_input(user_input),
      mentions |-> unknown_mentions(user_input)]]

\* process_message, lines 82-84, with the text recorded.
FindEventOf ==
  /\ Room
  /\ \E user_input \in IngestTexts :
       /\ IngestReadings[user_input].intent = "find_event"
       /\ Commit(Answered(
            [handle_event_search(events, Routed,
                                 IngestReadings[user_input].parsed,
                                 IngestReadings[user_input].mentions)
               EXCEPT !.turn.handler = "event_search",
                      !.turn.text = user_input],
            TRUE))

NextIngest == FindEventOf \/ Cancel \/ Reset

SpecIngest == Init /\ [][NextIngest]_vars

\* ------------------------------------------- the preset turns, answers recorded
\* _handle_use_saved_filters: what it answers with (the 'no saved filters yet'
\* text, or the response of the search).
use_saved_reply(s) ==
  IF s.saved_filters = <<>> THEN "no_saved_filters" ELSE "search"

\* process_message, lines 76-78, with the answer recorded.
UseSavedFiltersOf ==
  /\ Room
  /\ Commit(Answered(
       [handle_use_saved_filters(events, Routed) EXCEPT
          !.turn.handler = "use_saved_filters",
          !.turn.reply = use_saved_reply(Routed)],
       TRUE))

NextPreset ==
  FindEvent \/ UseSavedFiltersOf \/ RememberFilters \/ Uncertainty \/ MoreResults

SpecPreset == Init /\ [][NextPreset]_vars

\* ------------------------------------------------------------ properties
Prefix(seq, k) == SubSeq(seq, 1, k)

\* The category kinds (every kind but keyword).
Categories == {"event_type", "date", "location", "organizer"}

\* The lengths of the proper prefixes of the search's filter list for which
\* the query service (EventDatabase.search_events) returns an event.
MatchingPrefixes ==
  { k \in 0..(Len(turn.start) - 1) :
      search_events(events, Prefix(turn.start, k)) # <<>> }

\* The last search started from a non-empty list whose query was empty.
FullListEmpty ==
  /\ turn.searched
  /\ turn.start # <<>>
  /\ search_events(events, turn.start) = <<>>

\* C1: after a turn that searched, the store holds exactly the filter list the
\* search started from, in the same order, whatever the outcome of the search.
C1_StoreRestored == turn.searched => event_filters = turn.start

\* C1 witness: a search that removed two different filters, found a match with
\* the rest, and left the store as it was.
C1_Witness ==
  /\ turn.searched
  /\ turn.response = "relaxed_results"
  /\ Len(turn.removed) >= 2
  /\ turn.removed[1] # turn.removed[2]
  /\ event_filters = turn.start

\* C2: the store never holds two filters of the same category kind (event
\* type, date, location, organizer).
C2_OnePerCategory ==
  \A k \in Categories : Len(OfType(event_filters, k)) <= 1

\* C3: the queries of a search are the full list followed by its prefixes,
\* each one filter shorter than the one before (most recent filter dropped
\* first); relaxation starts as soon as the full list finds nothing, and no
\* other list is queried.
C3_RelaxationOrder ==
  turn.searched =>
    /\ Len(turn.queries) >= 1
    /\ Len(turn.queries) <= Len(turn.start) + 1
    /\ \A i \in 1..Len(turn.queries) :
         turn.queries[i] = Prefix(turn.start, Len(turn.start) + 1 - i)
    /\ FullListEmpty => Len(turn.queries) >= 2

\* C3 witness: a list of three filters relaxed down to the empty list over a
\* non-empty catalog (four queries).
C3_Witness ==
  /\ turn.searched
  /\ events # <<>>
  /\ Len(turn.start) = 3
  /\ Len(turn.queries) = 4
  /\ turn.queries[2] = Prefix(turn.start, 2)
  /\ turn.queries[4] = <<>>

\* C4: when the full list finds nothing and some proper prefix does, the search
\* stops at the longest such prefix: the cached results are that prefix's
\* result, the relaxed-filter record is the removed suffix, most recently added
\* first, and that prefix is the last list queried.
C4_StopsAtLongestPrefix ==
  (FullListEmpty /\ MatchingPrefixes # {}) =>
    LET n == Len(turn.start)
        k == CHOOSE j \in MatchingPrefixes : \A i \in MatchingPrefixes : i <= j
    IN /\ last_results = search_events(events, Prefix(turn.start, k))
       /\ last_removed_filters = Reversed(SubSeq(turn.start, k + 1, n))
       /\ Len(turn.queries) = n - k + 1
       /\ turn.queries[Len(turn.queries)] = Prefix(turn.start, k)

\* C4 witness: two filters were removed and a shorter prefix (the empty list)
\* that also matches was not queried.
C4_Witness ==
  /\ FullListEmpty
  /\ Len(turn.start) = 3
  /\ MatchingPrefixes = {0, 1}
  /\ Len(last_removed_filters) = 2
  /\ last_removed_filters[1] = turn.start[3]
  /\ Len(turn.queries) = 3

\* C5: when every prefix of a non-empty list, the empty list included, finds
\* nothing, the results are empty, the relaxed-filter record holds the whole
\* input list, and the response reports that no events were found.
C5_ExhaustionRecordsAll ==
  (FullListEmpty /\ MatchingPrefixes = {}) =>
    /\ last_results = <<>>
    /\ turn.response = "no_events"
    /\ \/ last_removed_filters = turn.start
       \/ last_removed_filters = Reversed(turn.start)

\* C6 as stated: whenever the full non-empty list finds nothing and the empty
\* list finds something, the relaxed-filter record holds all filters and the
\* results are the whole catalog.
C6_AsStated ==
  (FullListEmpty /\ search_events(events, <<>>) # <<>>) =>
    /\ Len(last_removed_filters) = Len(turn.start)
    /\ last_results = events

\* C6 amended: when the full list and every non-empty prefix of it find
\* nothing and the empty list finds something, the search ends with all filters
\* recorded as relaxed (most recently added first) and the whole catalog as
\* results.
C6_OnlyEmptyPrefixMatches ==
  (FullListEmpty /\ MatchingPrefixes = {0}) =>
    /\ last_removed_filters = Reversed(turn.start)
    /\ last_results = events
    /\ turn.response = "relaxed_results"
    /\ Len(turn.queries) = Len(turn.start) + 1

\* C6 witness: two filters, none of whose non-empty prefixes matches.
C6_Witness ==
  /\ FullListEmpty
  /\ MatchingPrefixes = {0}
  /\ Len(turn.start) >= 2
  /\ last_results = events
  /\ Len(last_removed_filters) = Len(turn.start)

\* C7: when the full non-empty list finds something, the search pops no
\* filter (one query, the store as at the start), the cached results are that
\* query's result and the relaxed-filter record is empty.
C7_DirectMatch ==
  (turn.searched /\ turn.start # <<>> /\ search_events(events, turn.start) # <<>>) =>
    /\ turn.queries = <<turn.start>>
    /\ turn.removed = <<>>
    /\ event_filters = turn.start
    /\ last_results = search_events(events, turn.start)
    /\ last_removed_filters = <<>>
    /\ turn.response = "results"

\* C7 witness: a direct match on two filters.
C7_Witness ==
  /\ turn.searched
  /\ Len(turn.start) >= 2
  /\ turn.response = "results"
  /\ last_results # <<>>
  /\ last_removed_filters = <<>>

\* C8: a search over an empty store caches the whole catalog, in catalog
\* order, and records no relaxed filter; the query service given no filter
\* returns what get_all_events returns.
C8_EmptyStoreIsWholeCatalog ==
  /\ search_events(events, <<>>) = events
  /\ (turn.searched /\ turn.start = <<>>) =>
       /\ last_results = events
       /\ last_removed_filters = <<>>
       /\ turn.removed = <<>>
       /\ turn.queries = << <<>> >>

\* C8 witness: a search over an empty store and a catalog of more than a page.
C8_Witness ==
  /\ turn.searched
  /\ turn.start = <<>>
  /\ Len(events) > PageSize
  /\ last_results = events

\* C9: once a category filter has been added, the filter map holds for its
\* kind the value of the last filter of that kind in the store, however many
\* filters of the kind the store holds (last write wins).
C9_LastWriteWins ==
  \A k \in Categories :
    LET items == OfType(event_filters, k)
    IN items # <<>> =>
         collect_filter_map(event_filters)[k] = items[Len(items)].value

\* C9 witness: a kind added twice with different values, the second last.
C9_Witness ==
  \E k \in Categories :
    LET items == OfType(event_filters, k)
    IN /\ Len(items) = 2
       /\ items[1].value # items[2].value
       /\ last_added_filter = <<items[2]>>
       /\ collect_filter_map(event_filters)[k] = items[2].value

\* C10: the store never holds two keyword filters with the same value.
C10_DistinctKeywords ==
  \A i, j \in 1..Len(event_filters) :
    (i # j /\ event_filters[i].type = "keyword" /\ event_filters[j].type = "keyword")
      => event_filters[i].value # event_filters[j].value

\* C11: over a run of consecutive cancel turns, the filters the cancel
\* responses name are the last filters of the store the run began with, taken
\* from the end (reverse insertion order), each cancel removes exactly the one
\* filter it names, and after as many cancels as there were filters the store
\* is empty.
C11_CancelIsLifo ==
  turn.response = "cancelled" =>
    /\ Len(turn.cancelled) <= Len(turn.start)
    /\ turn.start = event_filters \o Reversed(turn.cancelled)
    /\ \A i \in 1..Len(turn.cancelled) :
         turn.cancelled[i] = turn.start[Len(turn.start) + 1 - i]
    /\ Len(turn.cancelled) = Len(turn.start) => event_filters = <<>>

\* C11 witness: two different filters cancelled one after the other, leaving
\* the store empty.
C11_Witness ==
  /\ turn.response = "cancelled"
  /\ Len(turn.start) = 2
  /\ turn.start[1] # turn.start[2]
  /\ turn.cancelled = <<turn.start[2], turn.start[1]>>
  /\ event_filters = <<>>

\* C12: in every reachable state the results pointer lies between 0 and the
\* length of the cached result list.
C12_PointerInRange ==
  /\ results_pointer >= 0
  /\ results_pointer <= Len(last_results)

\* C12 witness: a first page shown of a longer cached list (the pointer is
\* strictly inside the range).
C12_Witness ==
  /\ results_pointer = PageSize
  /\ results_pointer < Len(last_results)

\* C13: a MoreResults turn over cached results lists exactly the next page of
\* the cached list, starting at the pointer, advances the pointer by the number
\* of events it lists, and queries nothing (the cached list is unchanged).
C13_MoreRevealsNextPage ==
  [][turn'.response = "more_results" =>
       /\ turn'.shown = SubSeq(last_results, results_pointer + 1,
                               Min(results_pointer + PageSize, Len(last_results)))
       /\ results_pointer' = results_pointer + Len(turn'.shown)
       /\ turn'.queries = <<>>
       /\ last_results' = last_results]_vars

\* C14: once the pointer is at the end of the cached list, a MoreResults turn
\* lists no event again and leaves the pointer at the end.
C14_NoRepeatAfterEnd ==
  [][(results_pointer = Len(last_results) /\ turn'.response = "more_results") =>
       /\ turn'.shown = <<>>
       /\ results_pointer' = results_pointer]_vars

\* C15: a MoreResults turn over cached results renders every event of the
\* cached list (as many events as the list holds).
C15_MoreListsEveryEvent ==
  turn.response = "more_results" => Len(turn.shown) = Len(last_results)

\* C16: a Reset turn, from any state, ends in phase initial with an empty
\* store, no cached results, the pointer at 0 and an empty relaxed-filter
\* record, and leaves the saved preset as it was.
C16_ResetClearsSession ==
  [][turn'.response = "reset" =>
       /\ state' = "initial"
       /\ event_filters' = <<>>
       /\ last_results' = <<>>
       /\ results_pointer' = 0
       /\ last_removed_filters' = <<>>
       /\ saved_filters' = saved_filters]_vars

\* C16 witness: the state after a Reset turn of a session that holds a saved
\* preset.
C16_Witness ==
  /\ turn.response = "reset"
  /\ saved_filters # <<>>
  /\ state = "initial"
  /\ event_filters = <<>>

\* The session after the three turns RememberFilters, Reset, UseSavedFilters
\* taken from the current state.
SavedRoundTrip ==
  LET remembered == Answered(handle_remember_filters(RoutedFrom(Session)), TRUE)
      cleared == Answered(handle_reset(RoutedFrom(remembered)), TRUE)
  IN Answered(handle_use_saved_filters(events, RoutedFrom(cleared)), TRUE)

\* C17: from any state with a non-empty store, the turns RememberFilters,
\* Reset, UseSavedFilters end with the filter list, and so the filter map, that
\* held before, and the last of them searches with the restored list.
C17_SavedPresetRoundTrip ==
  event_filters # <<>> =>
    LET after == SavedRoundTrip
    IN /\ after.event_filters = event_filters
       /\ collect_filter_map(after.event_filters)
            = collect_filter_map(event_filters)
       /\ after.saved_filters = event_filters
       /\ after.turn.searched
       /\ after.turn.start = event_filters
       /\ after.turn.queries[1] = event_filters

\* C17 witness: the state after a Reset followed by a UseSavedFilters turn that
\* put the saved preset back and searched with it.
C17_Witness ==
  /\ turn.intent = "use_saved_filters"
  /\ turn.searched
  /\ conversation_history = <<"bot", "user", "bot">>
  /\ saved_filters # <<>>
  /\ event_filters = saved_filters
  /\ turn.start = saved_filters

\* C18: a turn taken while a random-selection confirmation is awaited, whose
\* intent is neither positive_response nor uncertainty, ends in phase initial.
\* (Such a turn is one that finds the flag set and leaves it cleared without
\* being a positive_response turn.)
C18_OtherIntentReturnsToInitial ==
  [][(/\ awaiting_random_confirmation
      /\ state = "awaiting_random_response"
      /\ ~awaiting_random_confirmation'
      /\ turn'.intent # "positive_response") =>
       state' = "initial"]_vars

\* C19: the flag and the phase awaiting_random_response are set only by an
\* Uncertainty turn; a positive_response turn taken while the flag is set
\* runs the random selection, which clears the flag, moves to phase searching,
\* caches min(3, catalog size) distinct events of the catalog and puts the
\* pointer at the end of that list.
C19_RandomConfirmation ==
  [][/\ ((awaiting_random_confirmation' /\ ~awaiting_random_confirmation)
           \/ (state' = "awaiting_random_response"
                 /\ state # "awaiting_random_response")) => Uncertainty
     /\ (awaiting_random_confirmation /\ turn'.intent = "positive_response") =>
          /\ turn'.handler = "random_selection"
          /\ state' = "searching"
          /\ ~awaiting_random_confirmation'
          /\ Len(last_results') = Min(RandomCount, Len(events))
          /\ \A i \in 1..Len(last_results') :
               \E k \in 1..Len(events) : last_results'[i] = events[k]
          /\ \A i, j \in 1..Len(last_results') :
               i # j => last_results'[i] # last_results'[j]
          /\ results_pointer' = Len(last_results')]_vars

\* C19 witness: a random selection of three events out of a catalog of four,
\* after a confirmation was awaited.
C19_Witness ==
  /\ turn.intent = "positive_response"
  /\ turn.awaited
  /\ turn.handler = "random_selection"
  /\ state = "searching"
  /\ Len(events) > RandomCount
  /\ Len(last_results) = RandomCount
  /\ results_pointer = RandomCount
  /\ ~awaiting_random_confirmation

\* C20: a positive_response or negative_response turn routed while no
\* confirmation is awaited is handled by _handle_unknown, never by the random
\* selection or the decline handler.
C20_UnawaitedConfirmationIsUnknown ==
  (turn.intent \in {"positive_response", "negative_response"} /\ ~turn.awaited)
    => turn.handler = "unknown"

\* C20 witness: a positive_response turn with no confirmation awaited whose
\* text named a filter: _handle_unknown ingested it and searched.
C20_Witness ==
  /\ turn.intent = "positive_response"
  /\ ~turn.awaited
  /\ turn.handler = "unknown"
  /\ turn.searched
  /\ event_filters # <<>>

\* C21: a ResetExcept turn that names the recognized kind K leaves in the store
\* exactly the filters of kind K, in their original relative order, and runs
\* the search on that retained list.
C21_ResetExceptKeepsKind ==
  [][\A K \in FilterTypes :
       (Room /\ Commit(Answered(handle_reset_except(events, Routed, K), TRUE))) =>
         LET kept == SelectSeq(event_filters, LAMBDA f : f.type = K)
             direct == IF kept = <<>> THEN get_all_events(events)
                       ELSE search_events(events, kept)
         IN /\ event_filters' = kept
            /\ turn'.searched
            /\ turn'.start = kept
            /\ turn'.queries[1] = kept
            /\ direct # <<>> => last_results' = direct]_vars

\* C21 witness: the state after a ResetExcept turn of a session whose store
\* held filters of two kinds: the store holds those of one kind only, in the
\* order they had, and the search started from them.
C21_Witness ==
  /\ turn.intent = "reset_except"
  /\ turn.searched
  /\ event_filters # <<>>
  /\ turn.start = event_filters
  /\ Len(event_filters) < Len(turn.before)
  /\ event_filters = SelectSeq(turn.before,
                                LAMBDA f : f.type = event_filters[1].type)
  /\ last_results # <<>>

\* C22: a ResetExcept turn whose text names no recognized kind has the effect
\* of a Reset turn: phase initial, empty store, no cached results, pointer 0,
\* empty relaxed-filter record, saved preset as it was.
C22_ResetExceptWithoutKindIsReset ==
  [][Commit(Answered(handle_reset_except(events, Routed, NoneVal), TRUE)) =>
       /\ state' = "initial"
       /\ event_filters' = <<>>
       /\ last_results' = <<>>
       /\ results_pointer' = 0
       /\ last_removed_filters' = <<>>
       /\ saved_filters' = saved_filters
       /\ state' = Answered(handle_reset(Routed), TRUE).state]_vars

\* A full reset: a Reset turn, or a ResetExcept turn that names no recognized
\* kind (both call ConversationMemory.reset).
FullReset ==
  \/ Reset
  \/ Commit(Answered(handle_reset_except(events, Routed, NoneVal), TRUE))

\* The turn kept the transcript and added the user utterance, then the
\* response.
TranscriptExtended ==
  conversation_history' = conversation_history \o <<"user", "bot">>

C24_EveryTurnCompletes ==
  /\ turn.response # "AttributeError"
  /\ conversation_history # <<>> =>
       conversation_history[Len(conversation_history)].speaker = "bot"

\* C28: Cancel on an empty store is not an error: the handler answers with the
\* 'nothing to cancel' signal and changes no field of the session (the store
\* stays empty); the turn as a whole adds only its two transcript entries and
\* leaves phase, cached results, pointer, relaxed-filter record and saved
\* preset as they were.
C28_CancelOnEmptyStore ==
  [][(Cancel /\ event_filters = <<>>) =>
       LET handled == handle_cancel(Routed, turn)
       IN /\ handled.turn.reply = "nothing_to_cancel"
          /\ [handled EXCEPT !.turn = NoTurn] = Routed
          /\ turn'.reply = "nothing_to_cancel"
          /\ event_filters' = <<>>
          /\ last_added_filter' = last_added_filter
          /\ state' = state
          /\ last_results' = last_results
          /\ results_pointer' = results_pointer
          /\ last_removed_filters' = last_removed_filters
          /\ saved_filters' = saved_filters
          /\ conversation_history' = conversation_history \o <<"user", "bot">>]_vars

\* C28 witness: the state after a Cancel turn on an empty store, taken while
\* results were cached and a preset was saved.
C28_Witness ==
  /\ turn.response = "cancelled"
  /\ turn.reply = "nothing_to_cancel"
  /\ event_filters = <<>>
  /\ last_results # <<>>
  /\ state = "searching"

\* C30: a FindEvent turn that extracts at least one filter caches the outcome
\* of its search: last_results is the whole result list of the last query the
\* search ran, the pointer is min(3, its length), last_removed_filters is the
\* list of filters the search removed, and the phase is searching.
C30_FindEventCachesOutcome ==
  [][\A parsed \in ParsedInputs \ {NoParsed} :
       (Room /\ Commit(Answered(handle_event_search(events, Routed, parsed, TRUE),
                                TRUE))) =>
         /\ turn'.searched
         /\ state' = "searching"
         /\ last_results' =
              search_current(events, turn'.queries[Len(turn'.queries)])
         /\ results_pointer' = Min(PageSize, Len(last_results'))
         /\ last_removed_filters' = turn'.removed]_vars

\* The place of an intent in the documented precedence table (intents that
\* share a line of the table share a place).
DocumentedOrder(intent) ==
  CASE intent = "uncertainty" -> 1
    [] intent \in {"positive_response", "negative_response"} -> 2
    [] intent = "change_language" -> 3
    [] intent = "help" -> 4
    [] intent \in {"remember_filters", "use_saved_filters", "reset_except"} -> 5
    [] intent = "cancel" -> 6
    [] intent = "reset" -> 7
    [] intent = "get_details" -> 8
    [] intent = "more_results" -> 9
    [] intent = "find_event" -> 10
    [] intent = "greeting" -> 11

RuleIntents ==
  {"uncertainty", "positive_response", "negative_response", "change_language",
   "help", "remember_filters", "use_saved_filters", "reset_except", "cancel",
   "reset", "get_details", "more_results", "find_event", "greeting"}

\* C25: detect_intent returns, for every text, one intent of the enumeration:
\* an intent whose trigger the text matches and that no matching intent
\* precedes in the documented order, and unknown when no trigger matches; the
\* same text always gets the same intent.
C25_DocumentedPrecedence ==
  turn.handler = "detect_intent" =>
    LET matching == {intent \in RuleIntents : trigger(intent, turn.text)}
    IN /\ turn.intent \in RuleIntents \cup {"unknown"}
       /\ turn.intent = detect_intent(turn.text)
       /\ matching = {} <=> turn.intent = "unknown"
       /\ matching # {} =>
            /\ turn.intent \in matching
            /\ \A other \in matching :
                 DocumentedOrder(turn.intent) <= DocumentedOrder(other)

\* C25 witness: a text that matches the cancel and the reset triggers, in the
\* order reset then cancel, classified cancel.
C25_Witness ==
  /\ turn.handler = "detect_intent"
  /\ turn.text = "reset cancel"
  /\ trigger("reset", turn.text)
  /\ trigger("cancel", turn.text)
  /\ turn.intent = "cancel"

\* C26: a text that consists of one word of the organizer, event-type
\* (singular or plural) or date vocabulary is classified find_event.
C26_FilterWordIsFindEvent ==
  (turn.handler = "detect_intent" /\ turn.text \in FilterWordTexts) =>
    turn.intent = "find_event"

\* C27: normalize_input keeps a topic word as typed: for 'Find me a workshop
\* about coding' the event type is workshop and the keywords contain coding.
C27_TopicWordKept ==
  (turn.handler = "normalize_input"
     /\ turn.text = "Find me a workshop about coding") =>
    /\ turn.parsed.event_type = "workshop"
    /\ \E i \in 1..Len(turn.parsed.keywords) : turn.parsed.keywords[i] = "coding"

\* The first of the candidate events that is one (<<>> when none is).
FirstFound(candidates) ==
  LET found == SelectSeq(candidates, LAMBDA c : c # <<>>)
  IN IF found = <<>> THEN <<>> ELSE Head(found)

\* C29: a details request resolves its target by trying, in this order, the
\* event id named in the text, the first number of the text as a 1-based index
\* into the cached results, a title of a cached result contained in the text,
\* a title of a catalog event contained in the text; the first that yields an
\* event is shown, and when none does the response asks for clarification, in
\* words that depend on whether results are cached.
C29_DetailsResolutionOrder ==
  turn.handler = "event_details" =>
    LET user_text == str_lower(turn.text)
        target == FirstFound(<<by_event_id(events, user_text),
                               by_result_number(last_results, user_text),
                               by_title(last_results, user_text),
                               by_title(events, user_text)>>)
    IN /\ turn.shown = target
       /\ target # <<>> => turn.response = "details"
       /\ (target = <<>> /\ last_results # <<>>) => turn.response = "which_event"
       /\ (target = <<>> /\ last_results = <<>>) =>
            turn.response = "event_not_found"

\* C29 witness: a request that names an id not in the catalog and a number:
\* the id yields nothing and the number picks the second cached result.
C29_Witness ==
  /\ turn.handler = "event_details"
  /\ turn.text = "details evt999 2"
  /\ Len(last_results) >= 2
  /\ turn.shown = <<last_results[2]>>
  /\ turn.response = "details"

\* C31: an Unknown turn whose text holds no filter word and no generic search
\* or activity word answers with the purpose reminder and the current filters,
\* and leaves the store, the cached results, the pointer, the relaxed-filter
\* record, the saved preset and the phase as they were.
C31_UnknownKeepsContext ==
  [][(turn'.handler = "unknown" /\ ~UnknownReadings[turn'.text].mentions) =>
       /\ turn'.reply = "purpose_reminder"
       /\ turn'.listed = event_filters
       /\ ~turn'.searched
       /\ event_filters' = event_filters
       /\ last_results' = last_results
       /\ results_pointer' = results_pointer
       /\ last_removed_filters' = last_removed_filters
       /\ saved_filters' = saved_filters
       /\ state' = state]_vars

\* C31 witness: the state after the turn '???' taken in phase searching with
\* filters in the store, results cached and a preset saved.
C31_Witness ==
  /\ turn.handler = "unknown"
  /\ turn.text = "???"
  /\ turn.reply = "purpose_reminder"
  /\ turn.listed = event_filters
  /\ event_filters # <<>>
  /\ last_results # <<>>
  /\ saved_filters # <<>>
  /\ state = "searching"

\* The engine under a user who keeps sending messages: a turn is taken
\* whenever one is possible.
SpecTurns == Init /\ [][Next]_vars /\ WF_vars(Next)

\* The values self.state takes: the assignments of conversation.py.
AssignedPhases == {"initial", "searching", "awaiting_random_response"}

\* No turn leaves the phase outside the values the code assigns.
PhaseIsAssigned == state \in AssignedPhases

\* C32: the phase awaiting_clarification is part of the state machine: a
\* conversation that goes on comes to a turn that ends in it.
C32_ClarificationReached == <>(state = "awaiting_clarification")

\* The event passes the test search_events makes for one filter.
Satisfies(e, filter_item) == apply_filter(<<e>>, filter_item) = <<e>>

\* The rearrangements of a filter list.
Rearrangements(filters) ==
  LET n == Len(filters)
  IN { [i \in 1..n |-> filters[p[i]]] :
         p \in { q \in [1..n -> 1..n] : \A i, j \in 1..n : q[i] = q[j] => i = j } }

\* The list without its i-th filter.
Without(filters, i) == SubSeq(filters, 1, i - 1) \o SubSeq(filters, i + 1, Len(filters))

\* The events of a result list.
Range(results) == { results[i] : i \in 1..Len(results) }

\* C33: search_events returns exactly the catalog events, in catalog order,
\* that satisfy every filter of the list; every rearrangement of the list gives
\* the same result and dropping a filter never loses an event.
C33_SearchIsConjunction ==
  turn.searched =>
    LET filters == turn.queries[1]
    IN /\ last_results =
            SelectSeq(events, LAMBDA e :
              \A i \in 1..Len(filters) : Satisfies(e, filters[i]))
       /\ \A p \in Rearrangements(filters) : search_events(events, p) = last_results
       /\ \A i \in 1..Len(filters) :
            Range(last_results) \subseteq Range(search_events(events, Without(filters, i)))

\* C33 witness: a search with three filters of three kinds that keeps some
\* events of the catalog and not all, where one filter alone would keep more.
C33_Witness ==
  /\ turn.searched
  /\ Len(turn.queries[1]) = MaxStore
  /\ \A i, j \in 1..Len(turn.queries[1]) :
       turn.queries[1][i].type = turn.queries[1][j].type => i = j
  /\ last_results # <<>>
  /\ last_results # events
  /\ \E i \in 1..Len(turn.queries[1]) :
       Len(search_events(events, <<turn.queries[1][i]>>)) > Len(last_results)

\* C34: the confirmation flag is set after a turn exactly when the turn is an
\* Uncertainty turn; the random selection and the decline run only on a set
\* flag and leave it cleared, so each Uncertainty turn is confirmed at most
\* once.
C34_FlagIffUncertainty ==
  [][/\ awaiting_random_confirmation' <=> Uncertainty
     /\ turn'.handler \in {"random_selection", "decline_random"} =>
          /\ awaiting_random_confirmation
          /\ ~awaiting_random_confirmation']_vars

\* C34 witness: the flag cleared by a decline, the confirmation of an
\* Uncertainty turn that followed a search.
C34_Witness ==
  /\ turn.handler = "decline_random"
  /\ turn.awaited
  /\ ~awaiting_random_confirmation
  /\ event_filters # <<>>
  /\ Len(conversation_history) >= 6

\* C35: whenever the confirmation flag is set the phase is
\* awaiting_random_response; the flag is never set in phase initial or
\* searching.
C35_FlagOnlyWhileAwaiting ==
  awaiting_random_confirmation =>
    /\ state = "awaiting_random_response"
    /\ state \notin {"initial", "searching"}

\* C35 witness: the flag set by an Uncertainty turn taken after a search left
\* results cached, the phase having been searching.
C35_Witness ==
  /\ awaiting_random_confirmation
  /\ state = "awaiting_random_response"
  /\ last_results # <<>>
  /\ results_pointer > 0

\* C36: the saved preset changes only in a RememberFilters turn taken with a
\* non-empty store, which makes it the store of that moment; no other turn
\* alters it, and RememberFilters on an empty store keeps the preset.
C36_PresetIsolated ==
  [][/\ saved_filters' # saved_filters =>
          /\ RememberFilters
          /\ event_filters # <<>>
          /\ saved_filters' = event_filters
     /\ (RememberFilters /\ event_filters = <<>>) =>
          saved_filters' = saved_filters]_vars

\* C36 witness: a preset that a later search, which appended filters and
\* relaxed the list, left as it was saved.
C36_Witness ==
  /\ saved_filters # <<>>
  /\ turn.searched
  /\ turn.removed # <<>>
  /\ turn.start # saved_filters
  /\ event_filters # saved_filters
  /\ Len(turn.start) > Len(saved_filters)

\* C37: a Cancel turn on a non-empty store removes exactly the last filter of
\* the store, runs no search, and leaves the cached results, the pointer, the
\* relaxed-filter record, the saved preset and the phase as they were.
C37_CancelRemovesOnlyLast ==
  [][(turn'.response = "cancelled" /\ event_filters # <<>>) =>
       /\ event_filters' = SubSeq(event_filters, 1, Len(event_filters) - 1)
       /\ event_filters' \o <<event_filters[Len(event_filters)]>> = event_filters
       /\ turn'.reply = "removed"
       /\ ~turn'.searched
       /\ turn'.queries = <<>>
       /\ last_results' = last_results
       /\ results_pointer' = results_pointer
       /\ last_removed_filters' = last_removed_filters
       /\ saved_filters' = saved_filters
       /\ state' = state]_vars

\* C37 witness: the state after a Cancel turn that took the last of several
\* filters, with the results and the relaxed-filter record of the search
\* before it still cached.
C37_Witness ==
  /\ turn.response = "cancelled"
  /\ turn.reply = "removed"
  /\ Len(turn.cancelled) = 1
  /\ event_filters # <<>>
  /\ last_results # <<>>
  /\ last_removed_filters # <<>>
  /\ state = "searching"

\* C38: a Help, GetDetails, MoreResults, Uncertainty, RememberFilters, Greeting
\* or ChangeLanguage turn, and a positive or negative response taken while a
\* confirmation is awaited, leaves the filter store as it was.
C38_StoreUntouched ==
  [][(\/ Help
      \/ GetDetails
      \/ MoreResults
      \/ Uncertainty
      \/ RememberFilters
      \/ Greeting
      \/ ChangeLanguage
      \/ /\ awaiting_random_confirmation
         /\ turn'.intent \in {"positive_response", "negative_response"}) =>
       event_filters' = event_filters]_vars

\* C38 witness: the state after a MoreResults turn of a session holding
\* filters and a saved preset: the store is the one the search before it left.
C38_Witness ==
  /\ turn.response = "more_results"
  /\ event_filters # <<>>
  /\ saved_filters # <<>>
  /\ results_pointer = Len(last_results)

\* The place of a filter kind in the order event type, date, location,
\* organizer, keyword.
KindRank(ftype) ==
  CASE ftype = "event_type" -> 1
    [] ftype = "date" -> 2
    [] ftype = "location" -> 3
    [] ftype = "organizer" -> 4
    [] ftype = "keyword" -> 5

\* The filters of kind ftype that normalize_input found in the text.
Extracted(parsed, ftype) ==
  IF ftype = "keyword"
  THEN [i \in 1..Len(parsed.keywords) |-> [type |-> "keyword", value |-> parsed.keywords[i]]]
  ELSE IF parsed[ftype] = NoneVal THEN <<>>
  ELSE <<[type |-> ftype, value |-> parsed[ftype]]>>

\* C39: the filters a find_event turn extracts from its text are appended to
\* the store after the filters already held, in the order event type, date,
\* location, organizer, keywords, whatever the order of the words; the
\* relaxation of that turn removes filters from the end of the store, so of
\* the turn's own filters a keyword goes first and the event type last.
C39_IngestOrder ==
  [][turn'.handler = "event_search" =>
       LET parsed == IngestReadings[turn'.text].parsed
           old == Len(event_filters)
           added == SubSeq(event_filters', old + 1, Len(event_filters'))
           removed == turn'.removed
           own == Min(Len(removed), Len(added))
       IN /\ event_filters' = event_filters \o added
          /\ \A ftype \in FilterTypes : OfType(added, ftype) = Extracted(parsed, ftype)
          /\ \A i, j \in 1..Len(added) :
               i < j => KindRank(added[i].type) <= KindRank(added[j].type)
          /\ removed = Take(Reversed(event_filters'), Len(removed))
          /\ \A i, j \in 1..own :
               i < j => KindRank(removed[i].type) >= KindRank(removed[j].type)
          /\ (own > 0 /\ parsed.keywords # <<>>) => removed[1].type = "keyword"
          /\ \A i \in 1..own :
               removed[i].type = "event_type" => i = Len(added)]_vars

\* C39 witness: 'tomorrow seminar arc' stored as event type, date, organizer,
\* and relaxed by dropping the organizer and then the date.
C39_Witness ==
  /\ turn.handler = "event_search"
  /\ turn.text = "tomorrow seminar arc"
  /\ event_filters = <<[type |-> "event_type", value |-> "seminar"],
                       [type |-> "date", value |-> "tomorrow"],
                       [type |-> "organizer", value |-> "arc"]>>
  /\ turn.removed = <<[type |-> "organizer", value |-> "arc"],
                      [type |-> "date", value |-> "tomorrow"]>>

\* C40: a UseSavedFilters turn taken while no preset is saved answers that
\* nothing is saved, runs no search and leaves the filter store, the cached
\* results, the pointer, the relaxed-filter record and the phase as they were.
C40_UseSavedWithoutPreset ==
  [][(turn'.handler = "use_saved_filters" /\ saved_filters = <<>>) =>
       /\ turn'.reply = "no_saved_filters"
       /\ ~turn'.searched
       /\ turn'.queries = <<>>
       /\ event_filters' = event_filters
       /\ last_results' = last_results
       /\ results_pointer' = results_pointer
       /\ last_removed_filters' = last_removed_filters
       /\ state' = state
       /\ saved_filters' = <<>>]_vars

\* C40 witness: the state after 'use saved filters' said with nothing saved,
\* in a session that holds filters and the results and relaxed-filter record
\* of a relaxed search.
C40_Witness ==
  /\ turn.handler = "use_saved_filters"
  /\ turn.reply = "no_saved_filters"
  /\ saved_filters = <<>>
  /\ event_filters # <<>>
  /\ last_results # <<>>
  /\ results_pointer > 0
  /\ last_removed_filters # <<>>
  /\ state = "searching"
====
